---- MODULE Spec2Model ----
(***************************************************************************)
(* Model of src/src/omv/common/sensor_utils.c (OpenMV image sensor HAL):   *)
(* the bus detection protocol, the control surface over the global         *)
(* `sensor` record and the MAIN_FB() geometry record, and the auto-crop    *)
(* geometry engine.                                                        *)
(*                                                                         *)
(* One public call is one action.  A call moves pc from "idle" to "ret"    *)
(* and leaves in `op`, `ret`, `calls`, `pre` the call that was made, its   *)
(* return code, the ordered log of the collaborators it invoked and of the *)
(* writes it made, and the state it started from.  Return hands control    *)
(* back to the single caller.  `tick` is mp_hal_ticks_ms(), and `frames`   *)
(* keeps, for every frame whose first scanline went through the software   *)
(* throttle, the tick, the interval and the decision.  `capture` is the    *)
(* frame being captured: the bytes the sensor puts out, the scanline that  *)
(* comes next and the frame buffer memory the scanlines are copied to.     *)
(***************************************************************************)
EXTENDS Integers, Sequences, FiniteSets, TLC

VARIABLES sensor, fb, board, pc, op, ret, calls, pre, tick, frames, capture

vars ==
    <<sensor, fb, board, pc, op, ret, calls, pre, tick, frames, capture>>

---------------------------------------------------------------------------
(* Error catalog: the index of each description in sensor_errors[] is the  *)
(* magnitude of the code.                                                  *)
SENSOR_ERROR_NO_ERROR == 0
SENSOR_ERROR_CTL_FAILED == -1
SENSOR_ERROR_CTL_UNSUPPORTED == -2
SENSOR_ERROR_ISC_UNDETECTED == -3
SENSOR_ERROR_ISC_UNSUPPORTED == -4
SENSOR_ERROR_ISC_INIT_FAILED == -5
SENSOR_ERROR_TIM_INIT_FAILED == -6
SENSOR_ERROR_IO_ERROR == -9
SENSOR_ERROR_INVALID_FRAMESIZE == -12
SENSOR_ERROR_INVALID_PIXFORMAT == -13
SENSOR_ERROR_INVALID_ARGUMENT == -16
SENSOR_ERROR_PIXFORMAT_UNSUPPORTED == -17
SENSOR_ERROR_LAST == -20

ErrorCatalog == SENSOR_ERROR_LAST .. SENSOR_ERROR_NO_ERROR

(* Pixel formats.  PIXFORMAT_INVALID is the zero value of the field.       *)
PIXFORMAT_INVALID == "INVALID"
PIXFORMAT_GRAYSCALE == "GRAYSCALE"
PIXFORMAT_RGB565 == "RGB565"
PIXFORMAT_BAYER == "BAYER"
PIXFORMAT_YUV422 == "YUV422"
PIXFORMAT_JPEG == "JPEG"

PixFormats == {PIXFORMAT_INVALID, PIXFORMAT_GRAYSCALE, PIXFORMAT_RGB565,
               PIXFORMAT_BAYER, PIXFORMAT_YUV422, PIXFORMAT_JPEG}

ACTIVE_LOW == "ACTIVE_LOW"
ACTIVE_HIGH == "ACTIVE_HIGH"

(* Sensor frame size/resolution table; entry 0 is FRAMESIZE_INVALID.       *)
FRAMESIZE_INVALID == 0

resolution ==
    << <<0, 0>>,
       <<88, 72>>, <<176, 144>>, <<352, 288>>, <<88, 60>>, <<176, 120>>,
       <<352, 240>>,
       <<40, 30>>, <<80, 60>>, <<160, 120>>, <<320, 240>>, <<640, 480>>,
       <<30, 20>>, <<60, 40>>, <<120, 80>>, <<240, 160>>, <<480, 320>>,
       <<64, 32>>, <<64, 64>>, <<128, 64>>, <<128, 128>>,
       <<160, 160>>, <<320, 320>>,
       <<128, 160>>, <<128, 160>>, <<720, 480>>, <<752, 480>>, <<800, 600>>,
       <<1024, 768>>, <<1280, 768>>, <<1280, 1024>>, <<1280, 960>>,
       <<1600, 1200>>, <<1280, 720>>, <<1920, 1080>>, <<2560, 1440>>,
       <<2048, 1536>>, <<2560, 1600>>, <<2592, 1944>> >>

(* resolution[framesize][0] and resolution[framesize][1] *)
res_w(framesize) == resolution[framesize + 1][1]
res_h(framesize) == resolution[framesize + 1][2]

---------------------------------------------------------------------------
(* C integer arithmetic.                                                   *)
(* (uint32_t) n > size, for an int n and a size below 2^31: a negative n   *)
(* converts to 2^32 + n (a value of at least 2^31), above every such size.  *)
u32_gt(n, size) == n < 0 \/ n > size

(* int / 2 truncates toward zero *)
cdiv2(n) == IF n >= 0 THEN n \div 2 ELSE -((-n) \div 2)

IM_MAX(a, b) == IF a > b THEN a ELSE b
IM_MIN(a, b) == IF a < b THEN a ELSE b
IM_DIV(a, b) == IF b # 0 THEN a \div b ELSE 0

(* (a - b) < c on uint32_t, for a, b below 2^31 and c below 2^31: when     *)
(* a < b the difference wraps to a value above every such c                *)
u32_diff_lt(a, b, c) == a >= b /\ a - b < c

---------------------------------------------------------------------------
(* Capability slots of sensor_t (function pointers set by the chip         *)
(* family's bring-up routine; NULL when the family lacks the control).     *)
ThinSlots == {"set_contrast", "set_brightness", "set_saturation",
              "set_quality", "set_colorbar", "set_auto_gain", "get_gain_db",
              "set_auto_exposure", "get_exposure_us", "set_auto_whitebal",
              "get_rgb_gain_db", "set_auto_blc", "get_blc_regs",
              "set_lens_correction"}

AllSlots == ThinSlots \cup
            {"reset", "sleep", "read_reg", "write_reg", "set_pixformat",
             "set_framesize", "set_framerate", "set_gainceiling",
             "set_hmirror", "set_vflip", "set_special_effect", "ioctl"}

(* sensor.<slot> != NULL *)
HasSlot(s, slot) == slot \in s.caps

(* Names used in the log of a call. *)
EvAbort == "sensor_abort(true,false)"
EvFlush == "framebuffer_update_jpeg_buffer"
EvSetBuffers == "framebuffer_set_buffers"
EvConfig == "sensor_config"
EvDelay == "mp_hal_delay_ms"
EvWriteSensor == "write:sensor"
EvWriteFb == "write:MAIN_FB"
EvHook(slot) == "sensor." \o slot
EvHookFailed(slot) == "sensor." \o slot \o ":failed"
EvGpio(pin, level) == "omv_gpio_write(" \o pin \o "," \o level \o ")"
EvI2cEnable(on) == "omv_i2c_enable(" \o on \o ")"
EvFlushBuffers == "framebuffer_flush_buffers(true)"

IsHookEvent(e) ==
    \E slot \in AllSlots : e \in {EvHook(slot), EvHookFailed(slot)}

Range(seq) == {seq[i] : i \in 1..Len(seq)}

(* result of a call: new state, return code, log *)
Result(s, f, r, log) ==
    [sensor |-> s, fb |-> f, ret |-> r, calls |-> log, hung |-> FALSE]

(* a call that never returns: the state and log it had reached *)
(* the result r of a call made inside another: the caller logs what it did *)
(* before and after it and returns its own code                            *)
Nested(r, code, before, after) ==
    [sensor |-> r.sensor, fb |-> r.fb, ret |-> code,
     calls |-> before \o r.calls \o after, hung |-> FALSE]

Hung(s, f, log) ==
    [sensor |-> s, fb |-> f, ret |-> 0, calls |-> log, hung |-> TRUE]

---------------------------------------------------------------------------
(* Chip families: bus addresses and identifiers (ov*.h, sensor.h).         *)
OV2640_SLV_ADDR == 96
OV5640_SLV_ADDR == 120
OV7725_SLV_ADDR == 66
MT9V0XX_SLV_ADDR == 184
MT9M114_SLV_ADDR == 144
LEPTON_SLV_ADDR == 84
HM0XX0_SLV_ADDR == 72
FROGEYE2020_SLV_ADDR == 110
PAG7920_SLV_ADDR == 128

OV2640_ID == 38
OV5640_ID == 86
OV7670_ID == 118
OV7690_ID == 118
OV7725_ID == 119
OV9650_ID == 150
MT9V0X2_ID_V_1 == 4881
MT9V0X2_ID_V_2 == 4882
MT9V0X2_ID == 4883
MT9V0X4_ID == 4900
MT9M114_ID == 9345
LEPTON_ID == 84
HM01B0_ID == 176
HM0360_ID == 96
GC2145_ID == 33
PAG7920_ID == 31008
PAJ6100_ID == 24832
FROGEYE2020_ID == 8224

OMV_CSI_MAX_DEVICES == 5

(* sensor.chip_id: the low byte of the union with chip_id_w *)
chip_id(s) == s.chip_id_w % 256

(* a byte read into sensor.chip_id *)
set_chip_id(s, b) ==
    [s EXCEPT !.chip_id_w = (s.chip_id_w \div 256) * 256 + (b % 256)]

---------------------------------------------------------------------------
(* Results the collaborators and chip hooks hand back to one call:         *)
(*   hook - result of the capability hook (0, or non-zero for failure)     *)
(*   fbs  - result of framebuffer_set_buffers()                            *)
(*   cfg  - result of sensor_config()                                      *)
(*   reg  - value handed back by the read_reg hook                         *)
HookResults == {0, -1, 1}
CollabResults == {0, -1}
RegValues == {-1, 0, 85}

Env(hook, fbs, cfg, reg) ==
    [hook |-> hook, fbs |-> fbs, cfg |-> cfg, reg |-> reg]

(* framebuffer_get_buffer_size() *)
framebuffer_get_buffer_size == board.buffer_size

sensor_get_cropped(s, f) ==
    IF s.framesize # FRAMESIZE_INVALID
    THEN \/ f.x # 0
         \/ f.y # 0
         \/ f.u # res_w(s.framesize)
         \/ f.v # res_h(s.framesize)
    ELSE FALSE

sensor_get_src_bpp(s) ==
    IF s.raw_output THEN 1
    ELSE IF s.pixformat \in {PIXFORMAT_BAYER, PIXFORMAT_JPEG} THEN 1
    ELSE IF s.pixformat \in {PIXFORMAT_RGB565, PIXFORMAT_YUV422} THEN 2
    ELSE IF s.pixformat = PIXFORMAT_GRAYSCALE THEN s.mono_bpp
    ELSE 0

sensor_get_dst_bpp(s) ==
    IF s.pixformat \in {PIXFORMAT_GRAYSCALE, PIXFORMAT_BAYER} THEN 1
    ELSE IF s.pixformat \in {PIXFORMAT_RGB565, PIXFORMAT_YUV422} THEN 2
    ELSE 0

(* faulty variant: the depth of the destination alone sizes the frame *)
sensor_set_framebuffers_dst(s, f, count, e) ==
    IF s.pixformat = PIXFORMAT_INVALID
    THEN Result(s, f, SENSOR_ERROR_INVALID_PIXFORMAT, <<EvAbort, EvFlush>>)
    ELSE IF s.framesize = FRAMESIZE_INVALID
    THEN Result(s, f, SENSOR_ERROR_INVALID_FRAMESIZE, <<EvAbort, EvFlush>>)
    ELSE LET bpp == sensor_get_dst_bpp(s)
             fsz == IF board.hw_crop
                    THEN f.u * f.v * bpp
                    ELSE res_w(s.framesize) * res_h(s.framesize) * bpp
         IN Result(s, [f EXCEPT !.frame_size = fsz], e.fbs,
                   <<EvAbort, EvFlush, EvWriteFb, EvSetBuffers>>)

sensor_set_framebuffers(s, f, count, e) ==
    IF s.pixformat = PIXFORMAT_INVALID
    THEN Result(s, f, SENSOR_ERROR_INVALID_PIXFORMAT, <<EvAbort, EvFlush>>)
    ELSE IF s.framesize = FRAMESIZE_INVALID
    THEN Result(s, f, SENSOR_ERROR_INVALID_FRAMESIZE, <<EvAbort, EvFlush>>)
    ELSE LET bpp == IM_MAX(sensor_get_src_bpp(s), sensor_get_dst_bpp(s))
             fsz == IF board.hw_crop
                    THEN f.u * f.v * bpp
                    ELSE res_w(s.framesize) * res_h(s.framesize) * bpp
         IN Result(s, [f EXCEPT !.frame_size = fsz], e.fbs,
                   <<EvAbort, EvFlush, EvWriteFb, EvSetBuffers>>)

(* the settle delay of a setter, skipped when sensor.disable_delays *)
SettleDelay(s) == IF s.disable_delays THEN <<>> ELSE <<EvDelay>>

(* faulty variant: a change from BAYER is never held back *)
set_pixformat_changed_nofit(s, f, pixformat, e) ==
    IF \/ /\ pixformat = PIXFORMAT_YUV422
          /\ (s.transpose \/ s.auto_rotation)
       \/ /\ pixformat = PIXFORMAT_JPEG
          /\ \/ sensor_get_cropped(s, f)
             \/ s.transpose
             \/ s.auto_rotation
    THEN Result(s, f, SENSOR_ERROR_PIXFORMAT_UNSUPPORTED, <<>>)
    ELSE IF ~HasSlot(s, "set_pixformat")
    THEN Result(s, f, SENSOR_ERROR_CTL_UNSUPPORTED, <<EvAbort, EvFlush>>)
    ELSE IF e.hook # 0
    THEN Result(s, f, SENSOR_ERROR_CTL_FAILED,
                <<EvAbort, EvFlush, EvHookFailed("set_pixformat")>>)
    ELSE Nested(sensor_set_framebuffers(
                    [s EXCEPT !.pixformat = pixformat],
                    [f EXCEPT !.pixfmt = PIXFORMAT_INVALID], -1, e),
                e.cfg,
                <<EvAbort, EvFlush, EvHook("set_pixformat")>>
                \o SettleDelay(s) \o <<EvWriteSensor, EvWriteFb>>,
                <<EvConfig>>)

(* sensor_set_pixformat once the value is known to differ *)
set_pixformat_changed(s, f, pixformat, e) ==
    LET size == framebuffer_get_buffer_size
    IN  IF /\ s.pixformat = PIXFORMAT_BAYER
           /\ pixformat \in {PIXFORMAT_RGB565, PIXFORMAT_YUV422}
           /\ u32_gt(f.u * f.v * 2, size)
           /\ ~u32_gt(f.u * f.v * 1, size)
        THEN Result(s, f, 0, <<>>)
        ELSE IF \/ /\ pixformat = PIXFORMAT_YUV422
                   /\ (s.transpose \/ s.auto_rotation)
                \/ /\ pixformat = PIXFORMAT_JPEG
                   /\ \/ sensor_get_cropped(s, f)
                      \/ s.transpose
                      \/ s.auto_rotation
        THEN Result(s, f, SENSOR_ERROR_PIXFORMAT_UNSUPPORTED, <<>>)
        ELSE IF ~HasSlot(s, "set_pixformat")
        THEN Result(s, f, SENSOR_ERROR_CTL_UNSUPPORTED, <<EvAbort, EvFlush>>)
        ELSE IF e.hook # 0
        THEN Result(s, f, SENSOR_ERROR_CTL_FAILED,
                    <<EvAbort, EvFlush, EvHookFailed("set_pixformat")>>)
        ELSE Nested(sensor_set_framebuffers(
                        [s EXCEPT !.pixformat = pixformat],
                        [f EXCEPT !.pixfmt = PIXFORMAT_INVALID], -1, e),
                    e.cfg,
                    <<EvAbort, EvFlush, EvHook("set_pixformat")>>
                    \o SettleDelay(s) \o <<EvWriteSensor, EvWriteFb>>,
                    <<EvConfig>>)

(* faulty variant: the unchanged-value check is missing *)
sensor_set_pixformat_always(s, f, pixformat, e) ==
    set_pixformat_changed(s, f, pixformat, e)

sensor_set_pixformat(s, f, pixformat, e) ==
    IF s.pixformat = pixformat
    THEN Result(s, f, 0, <<>>)
    ELSE set_pixformat_changed(s, f, pixformat, e)

(* faulty variant: the cached frame format is left as it was *)
framesize_geometry_stale(f, framesize) ==
    [f EXCEPT !.x = 0, !.y = 0,
              !.w = res_w(framesize), !.h = res_h(framesize),
              !.u = res_w(framesize), !.v = res_h(framesize)]

(* faulty variant: the origin of the window is left as it was *)
framesize_geometry_origin(f, framesize) ==
    [f EXCEPT !.w = res_w(framesize), !.h = res_h(framesize),
              !.u = res_w(framesize), !.v = res_h(framesize),
              !.pixfmt = PIXFORMAT_INVALID]

(* the MAIN_FB() fields sensor_set_framesize writes *)
framesize_geometry(f, framesize) ==
    [f EXCEPT !.x = 0, !.y = 0,
              !.w = res_w(framesize), !.h = res_h(framesize),
              !.u = res_w(framesize), !.v = res_h(framesize),
              !.pixfmt = PIXFORMAT_INVALID]

sensor_set_framesize(s, f, framesize, e) ==
    IF s.framesize = framesize
    THEN Result(s, f, 0, <<>>)
    ELSE IF ~HasSlot(s, "set_framesize")
    THEN Result(s, f, SENSOR_ERROR_CTL_UNSUPPORTED, <<EvAbort, EvFlush>>)
    ELSE IF e.hook # 0
    THEN Result(s, f, SENSOR_ERROR_CTL_FAILED,
                <<EvAbort, EvFlush, EvHookFailed("set_framesize")>>)
    ELSE Nested(sensor_set_framebuffers(
                    [s EXCEPT !.framesize = framesize],
                    framesize_geometry(f, framesize), -1, e),
                e.cfg,
                <<EvAbort, EvFlush, EvHook("set_framesize")>>
                \o SettleDelay(s) \o <<EvWriteSensor, EvWriteFb>>,
                <<EvConfig>>)

(* faulty variant: the sign of the argument is not looked at *)
sensor_set_framerate_signed(s, f, framerate, e) ==
    IF s.framerate = framerate
    THEN Result(s, f, 0, <<>>)
    ELSE IF HasSlot(s, "set_framerate") /\ e.hook # 0
    THEN Result(s, f, SENSOR_ERROR_CTL_FAILED,
                <<EvHookFailed("set_framerate")>>)
    ELSE Result([s EXCEPT !.framerate = framerate], f, 0,
                (IF HasSlot(s, "set_framerate")
                 THEN <<EvHook("set_framerate")>> ELSE <<>>)
                \o <<EvWriteSensor>>)

sensor_set_framerate(s, f, framerate, e) ==
    IF s.framerate = framerate
    THEN Result(s, f, 0, <<>>)
    ELSE IF framerate < 0
    THEN Result(s, f, SENSOR_ERROR_INVALID_ARGUMENT, <<>>)
    ELSE IF HasSlot(s, "set_framerate") /\ e.hook # 0
    THEN Result(s, f, SENSOR_ERROR_CTL_FAILED,
                <<EvHookFailed("set_framerate")>>)
    ELSE Result([s EXCEPT !.framerate = framerate], f, 0,
                (IF HasSlot(s, "set_framerate")
                 THEN <<EvHook("set_framerate")>> ELSE <<>>)
                \o <<EvWriteSensor>>)

(* faulty variant: an accepted frame moves the baseline to the tick *)
sensor_throttle_framerate_snap(s, f, t) ==
    LET framerate_ms == IM_DIV(1000, s.framerate)
    IN  IF s.first_line
        THEN Result(s, f, 0, <<>>)
        ELSE IF /\ s.last_frame_ms_valid
                /\ u32_diff_lt(t, s.last_frame_ms, framerate_ms)
        THEN Result([s EXCEPT !.first_line = TRUE, !.drop_frame = TRUE],
                    f, 0, <<EvWriteSensor>>)
        ELSE Result([s EXCEPT !.first_line = TRUE,
                              !.last_frame_ms = t,
                              !.last_frame_ms_valid = TRUE],
                    f, 0, <<EvWriteSensor>>)

(* faulty variant: an accepted frame leaves the baseline where it was *)
sensor_throttle_framerate_fixed(s, f, t) ==
    LET framerate_ms == IM_DIV(1000, s.framerate)
    IN  IF s.first_line
        THEN Result(s, f, 0, <<>>)
        ELSE IF /\ s.last_frame_ms_valid
                /\ u32_diff_lt(t, s.last_frame_ms, framerate_ms)
        THEN Result([s EXCEPT !.first_line = TRUE, !.drop_frame = TRUE],
                    f, 0, <<EvWriteSensor>>)
        ELSE IF s.last_frame_ms_valid
        THEN Result([s EXCEPT !.first_line = TRUE], f, 0, <<EvWriteSensor>>)
        ELSE Result([s EXCEPT !.first_line = TRUE,
                              !.last_frame_ms = t,
                              !.last_frame_ms_valid = TRUE],
                    f, 0, <<EvWriteSensor>>)

(* t is mp_hal_ticks_ms(); the function returns nothing (ret stays 0) *)
sensor_throttle_framerate(s, f, t) ==
    LET framerate_ms == IM_DIV(1000, s.framerate)
    IN  IF s.first_line
        THEN Result(s, f, 0, <<>>)
        ELSE IF /\ s.last_frame_ms_valid
                /\ u32_diff_lt(t, s.last_frame_ms, framerate_ms)
        THEN Result([s EXCEPT !.first_line = TRUE, !.drop_frame = TRUE],
                    f, 0, <<EvWriteSensor>>)
        ELSE IF s.last_frame_ms_valid
        THEN Result([s EXCEPT !.first_line = TRUE,
                              !.last_frame_ms = @ + framerate_ms],
                    f, 0, <<EvWriteSensor>>)
        ELSE Result([s EXCEPT !.first_line = TRUE,
                              !.last_frame_ms = t,
                              !.last_frame_ms_valid = TRUE],
                    f, 0, <<EvWriteSensor>>)

(* sensor_set_windowing from the abort on: the window is written *)
set_windowing_commit(s, f, x, y, w, h, e) ==
    Nested(sensor_set_framebuffers(
               s,
               [f EXCEPT !.x = x, !.y = y, !.w = w, !.h = h,
                         !.u = w, !.v = h,
                         !.pixfmt = PIXFORMAT_INVALID], -1, e),
           e.cfg, <<EvAbort, EvFlush, EvWriteFb>>, <<EvConfig>>)

(* faulty variant: windowing is accepted under the compressed format *)
sensor_set_windowing_jpeg(s, f, x, y, w, h, e) ==
    IF f.x = x /\ f.y = y /\ f.u = w /\ f.v = h
    THEN Result(s, f, 0, <<>>)
    ELSE set_windowing_commit(s, f, x, y, w, h, e)

sensor_set_windowing(s, f, x, y, w, h, e) ==
    IF f.x = x /\ f.y = y /\ f.u = w /\ f.v = h
    THEN Result(s, f, 0, <<>>)
    ELSE IF s.pixformat = PIXFORMAT_JPEG
    THEN Result(s, f, SENSOR_ERROR_PIXFORMAT_UNSUPPORTED, <<>>)
    ELSE set_windowing_commit(s, f, x, y, w, h, e)

(* sensor_set_contrast .. sensor_set_lens_correction: capability check,    *)
(* hook, nothing recorded in the sensor state.                             *)
sensor_thin_delegate(s, f, slot, e) ==
    IF ~HasSlot(s, slot)
    THEN Result(s, f, SENSOR_ERROR_CTL_UNSUPPORTED, <<>>)
    ELSE IF e.hook # 0
    THEN Result(s, f, SENSOR_ERROR_CTL_FAILED, <<EvHookFailed(slot)>>)
    ELSE Result(s, f, 0, <<EvHook(slot)>>)

(* faulty variant: the capability check is missing and an absent hook     *)
(* counts as success                                                      *)
sensor_set_gainceiling_unchecked(s, f, gainceiling, e) ==
    IF s.gainceiling = gainceiling
    THEN Result(s, f, 0, <<>>)
    ELSE IF HasSlot(s, "set_gainceiling") /\ e.hook # 0
    THEN Result(s, f, SENSOR_ERROR_CTL_FAILED,
                <<EvHookFailed("set_gainceiling")>>)
    ELSE Result([s EXCEPT !.gainceiling = gainceiling], f, 0,
                (IF HasSlot(s, "set_gainceiling")
                 THEN <<EvHook("set_gainceiling")>> ELSE <<>>)
                \o <<EvWriteSensor>>)

sensor_set_gainceiling(s, f, gainceiling, e) ==
    IF s.gainceiling = gainceiling
    THEN Result(s, f, 0, <<>>)
    ELSE IF ~HasSlot(s, "set_gainceiling")
    THEN Result(s, f, SENSOR_ERROR_CTL_UNSUPPORTED, <<>>)
    ELSE IF e.hook # 0
    THEN Result(s, f, SENSOR_ERROR_CTL_FAILED,
                <<EvHookFailed("set_gainceiling")>>)
    ELSE Result([s EXCEPT !.gainceiling = gainceiling], f, 0,
                <<EvHook("set_gainceiling"), EvWriteSensor>>)

sensor_set_special_effect(s, f, sde, e) ==
    IF s.sde = sde
    THEN Result(s, f, 0, <<>>)
    ELSE IF ~HasSlot(s, "set_special_effect")
    THEN Result(s, f, SENSOR_ERROR_CTL_UNSUPPORTED, <<>>)
    ELSE IF e.hook # 0
    THEN Result(s, f, SENSOR_ERROR_CTL_FAILED,
                <<EvHookFailed("set_special_effect")>>)
    ELSE Result([s EXCEPT !.sde = sde], f, 0,
                <<EvHook("set_special_effect"), EvWriteSensor>>)

sensor_set_hmirror(s, f, enable, e) ==
    IF s.hmirror = enable
    THEN Result(s, f, 0, <<>>)
    ELSE IF ~HasSlot(s, "set_hmirror")
    THEN Result(s, f, SENSOR_ERROR_CTL_UNSUPPORTED, <<EvAbort>>)
    ELSE IF e.hook # 0
    THEN Result(s, f, SENSOR_ERROR_CTL_FAILED,
                <<EvAbort, EvHookFailed("set_hmirror")>>)
    ELSE Result([s EXCEPT !.hmirror = enable], f, 0,
                <<EvAbort, EvHook("set_hmirror"), EvWriteSensor>>
                \o SettleDelay(s))

(* faulty variant: the flag is committed before the hook is called *)
sensor_set_vflip_early(s, f, enable, e) ==
    IF s.vflip = enable
    THEN Result(s, f, 0, <<>>)
    ELSE IF ~HasSlot(s, "set_vflip")
    THEN Result(s, f, SENSOR_ERROR_CTL_UNSUPPORTED, <<EvAbort>>)
    ELSE IF e.hook # 0
    THEN Result([s EXCEPT !.vflip = enable], f, SENSOR_ERROR_CTL_FAILED,
                <<EvAbort, EvWriteSensor, EvHookFailed("set_vflip")>>)
    ELSE Result([s EXCEPT !.vflip = enable], f, 0,
                <<EvAbort, EvWriteSensor, EvHook("set_vflip")>>
                \o SettleDelay(s))

sensor_set_vflip(s, f, enable, e) ==
    IF s.vflip = enable
    THEN Result(s, f, 0, <<>>)
    ELSE IF ~HasSlot(s, "set_vflip")
    THEN Result(s, f, SENSOR_ERROR_CTL_UNSUPPORTED, <<EvAbort>>)
    ELSE IF e.hook # 0
    THEN Result(s, f, SENSOR_ERROR_CTL_FAILED,
                <<EvAbort, EvHookFailed("set_vflip")>>)
    ELSE Result([s EXCEPT !.vflip = enable], f, 0,
                <<EvAbort, EvHook("set_vflip"), EvWriteSensor>>
                \o SettleDelay(s))

(* faulty variant: the pixel format is not looked at *)
sensor_set_transpose_any(s, f, enable) ==
    IF s.transpose = enable
    THEN Result(s, f, 0, <<>>)
    ELSE Result([s EXCEPT !.transpose = enable], f, 0,
                <<EvAbort, EvWriteSensor>>)

sensor_set_transpose(s, f, enable) ==
    IF s.transpose = enable
    THEN Result(s, f, 0, <<>>)
    ELSE IF s.pixformat \in {PIXFORMAT_YUV422, PIXFORMAT_JPEG}
    THEN Result(s, f, SENSOR_ERROR_PIXFORMAT_UNSUPPORTED, <<EvAbort>>)
    ELSE Result([s EXCEPT !.transpose = enable], f, 0,
                <<EvAbort, EvWriteSensor>>)

(* faulty variant: the pixel format is not looked at *)
sensor_set_auto_rotation_any(s, f, enable) ==
    IF s.auto_rotation = enable
    THEN Result(s, f, 0, <<>>)
    ELSE Result([s EXCEPT !.auto_rotation = enable], f, 0,
                <<EvAbort, EvWriteSensor>>)

sensor_set_auto_rotation(s, f, enable) ==
    IF s.auto_rotation = enable
    THEN Result(s, f, 0, <<>>)
    ELSE IF s.pixformat \in {PIXFORMAT_YUV422, PIXFORMAT_JPEG}
    THEN Result(s, f, SENSOR_ERROR_PIXFORMAT_UNSUPPORTED, <<EvAbort>>)
    ELSE Result([s EXCEPT !.auto_rotation = enable], f, 0,
                <<EvAbort, EvWriteSensor>>)

sensor_sleep(s, f, enable, e) ==
    IF ~HasSlot(s, "sleep")
    THEN Result(s, f, SENSOR_ERROR_CTL_UNSUPPORTED, <<EvAbort>>)
    ELSE IF e.hook # 0
    THEN Result(s, f, SENSOR_ERROR_CTL_FAILED,
                <<EvAbort, EvHookFailed("sleep")>>)
    ELSE Result(s, f, 0, <<EvAbort, EvHook("sleep")>>)

(* faulty variant: the hook's result is handed back as it is *)
sensor_ioctl_raw(s, f, request, e) ==
    IF ~HasSlot(s, "ioctl")
    THEN Result(s, f, SENSOR_ERROR_CTL_UNSUPPORTED, <<EvAbort>>)
    ELSE Result(s, f, e.hook,
                <<EvAbort, IF e.hook # 0 THEN EvHookFailed("ioctl")
                           ELSE EvHook("ioctl")>>)

sensor_ioctl(s, f, request, e) ==
    IF ~HasSlot(s, "ioctl")
    THEN Result(s, f, SENSOR_ERROR_CTL_UNSUPPORTED, <<EvAbort>>)
    ELSE Result(s, f, IF e.hook # 0 THEN SENSOR_ERROR_CTL_FAILED ELSE 0,
                <<EvAbort, IF e.hook # 0 THEN EvHookFailed("ioctl")
                           ELSE EvHook("ioctl")>>)

sensor_read_reg(s, f, reg_addr, e) ==
    IF ~HasSlot(s, "read_reg")
    THEN Result(s, f, SENSOR_ERROR_CTL_UNSUPPORTED, <<>>)
    ELSE IF e.reg = -1
    THEN Result(s, f, SENSOR_ERROR_IO_ERROR, <<EvHookFailed("read_reg")>>)
    ELSE Result(s, f, e.reg, <<EvHook("read_reg")>>)

sensor_write_reg(s, f, reg_addr, reg_data, e) ==
    IF ~HasSlot(s, "write_reg")
    THEN Result(s, f, SENSOR_ERROR_CTL_UNSUPPORTED, <<>>)
    ELSE IF e.hook = -1
    THEN Result(s, f, SENSOR_ERROR_IO_ERROR, <<EvHookFailed("write_reg")>>)
    ELSE Result(s, f, 0, <<EvHook("write_reg")>>)

sensor_get_id(s, f) == Result(s, f, s.chip_id_w, <<>>)

sensor_set_vsync_callback(s, f, vsync_cb) ==
    Result([s EXCEPT !.vsync_callback = vsync_cb], f, 0, <<EvWriteSensor>>)

sensor_set_frame_callback(s, f, vsync_cb) ==
    Result([s EXCEPT !.frame_callback = vsync_cb], f, 0, <<EvWriteSensor>>)

sensor_set_color_palette(s, f, color_palette) ==
    Result([s EXCEPT !.color_palette = color_palette], f, 0,
           <<EvWriteSensor>>)

sensor_shutdown(s, f, enable) ==
    LET level == IF enable
                 THEN (IF s.power_pol = ACTIVE_HIGH THEN "1" ELSE "0")
                 ELSE (IF s.power_pol = ACTIVE_HIGH THEN "0" ELSE "1")
    IN Result(s, f, 0,
              <<EvAbort>>
              \o (IF board.power_pin THEN <<EvGpio("POWER", level)>> ELSE <<>>)
              \o <<EvDelay>>)

(* faulty variant: the frame size survives the reset *)
reset_state_keep_framesize(s) ==
    [s EXCEPT !.sde = 0,
              !.pixformat = PIXFORMAT_INVALID,
              !.framerate = 0,
              !.first_line = FALSE,
              !.drop_frame = FALSE,
              !.last_frame_ms = 0,
              !.last_frame_ms_valid = FALSE,
              !.gainceiling = 0,
              !.hmirror = FALSE,
              !.vflip = FALSE,
              !.transpose = FALSE,
              !.auto_rotation =
                  IF board.imu THEN chip_id(s) = OV7690_ID ELSE FALSE,
              !.vsync_callback = "NULL",
              !.frame_callback = "NULL",
              !.color_palette = "rainbow_table",
              !.disable_full_flush = FALSE]

(* faulty variant: auto-rotation is cleared on every build *)
reset_state_flat(s) ==
    [s EXCEPT !.sde = 0,
              !.pixformat = PIXFORMAT_INVALID,
              !.framesize = 0,
              !.framerate = 0,
              !.first_line = FALSE,
              !.drop_frame = FALSE,
              !.last_frame_ms = 0,
              !.last_frame_ms_valid = FALSE,
              !.gainceiling = 0,
              !.hmirror = FALSE,
              !.vflip = FALSE,
              !.transpose = FALSE,
              !.auto_rotation = FALSE,
              !.vsync_callback = "NULL",
              !.frame_callback = "NULL",
              !.color_palette = "rainbow_table",
              !.disable_full_flush = FALSE]

(* the sensor state sensor_reset writes *)
reset_state(s) ==
    [s EXCEPT !.sde = 0,
              !.pixformat = PIXFORMAT_INVALID,
              !.framesize = 0,
              !.framerate = 0,
              !.first_line = FALSE,
              !.drop_frame = FALSE,
              !.last_frame_ms = 0,
              !.last_frame_ms_valid = FALSE,
              !.gainceiling = 0,
              !.hmirror = FALSE,
              !.vflip = FALSE,
              !.transpose = FALSE,
              !.auto_rotation =
                  IF board.imu THEN chip_id(s) = OV7690_ID ELSE FALSE,
              !.vsync_callback = "NULL",
              !.frame_callback = "NULL",
              !.color_palette = "rainbow_table",
              !.disable_full_flush = FALSE]

(* sensor_reset after the state is cleared: power-up, reset pulse, the    *)
(* chip's reset hook, flush of the frame buffers                           *)
reset_sequence(s1, f, e, log) ==
    IF HasSlot(s1, "reset") /\ e.hook # 0
    THEN Result(s1, f, SENSOR_ERROR_CTL_FAILED,
                log \o <<EvHookFailed("reset")>>)
    ELSE Result(s1, f, 0,
                log \o (IF HasSlot(s1, "reset")
                        THEN <<EvHook("reset")>> ELSE <<>>)
                    \o <<EvFlushBuffers>>)

reset_pulse(s1) ==
    IF ~board.reset_pin THEN <<>>
    ELSE IF s1.reset_pol = ACTIVE_HIGH
    THEN <<EvGpio("RESET", "1"), EvDelay, EvGpio("RESET", "0")>>
    ELSE <<EvGpio("RESET", "0"), EvDelay, EvGpio("RESET", "1")>>

reset_hardware(s1, f, e) ==
    reset_sequence(s1, f, e,
                   <<EvAbort, EvWriteSensor>>
                   \o sensor_shutdown(s1, f, FALSE).calls
                   \o <<EvI2cEnable("false")>> \o reset_pulse(s1)
                   \o <<EvDelay, EvI2cEnable("true")>>)

sensor_reset(s, f, e) == reset_hardware(reset_state(s), f, e)

---------------------------------------------------------------------------
(* Geometry engine.                                                        *)
(*                                                                         *)
(* The ratio search runs on float in the code: r = c * (max / min), err =  *)
(* |r - round(r)|.  Here r is the exact fraction c*max/min and the error   *)
(* its numerator over min.  The two agree whenever no error numerator k    *)
(* has k/min within the accumulated float rounding of the 0.01 threshold:  *)
(* for every window with min < 97, and for the larger windows the          *)
(* specifications below use (102x101, 203x201, 304x287).                   *)
MaxRatioIter == 100

(* fast_roundf(c * max / min) *)
round_ratio(max, min, c) == (2 * c * max + min) \div (2 * min)

(* min * |r - fast_roundf(r)| for r = c * max / min *)
err_num(max, min, c) ==
    LET d == c * max - round_ratio(max, min, c) * min
    IN IF d < 0 THEN -d ELSE d

(* for (int i = 100; i; i--) { ... }: the best_c the loop ends with.       *)
(* best_num is min * best_err; FLT_MAX is any value above every error.     *)
RECURSIVE ratio_search(_, _, _, _, _, _)
ratio_search(max, min, c, best_num, best_c, i) ==
    IF i = 0 THEN best_c
    ELSE LET err == err_num(max, min, c)
             better == err <= best_num
             bn == IF better THEN err ELSE best_num
             bc == IF better THEN c ELSE best_c
         IN IF 100 * bn <= min THEN bc
            ELSE ratio_search(max, min, c + 1, bn, bc, i - 1)

(* while ((u * v * bpp) > size || (u % 2) || (v % 2)) { u -= u_sub; ... }  *)
(* The loop ends after the least number k of subtractions at which its     *)
(* condition is false.  n bounds the iterations followed; a loop still     *)
(* running then is reported as not returning.                              *)
crop_loop(u, v, u_sub, v_sub, bpp, size, n) ==
    LET running(k) ==
            \/ u32_gt((u - k * u_sub) * (v - k * v_sub) * bpp, size)
            \/ (u - k * u_sub) % 2 # 0
            \/ (v - k * v_sub) % 2 # 0
        exits == {k \in 0 .. n : ~running(k)}
        first == CHOOSE k \in exits : \A j \in exits : k <= j
    IN  IF exits = {}
        THEN [u |-> u - n * u_sub, v |-> v - n * v_sub, hung |-> TRUE]
        ELSE [u |-> u - first * u_sub, v |-> v - first * v_sub,
              hung |-> FALSE]

MaxCropIter == 256

(* the window cr the crop loop ended with is centred in the old one and    *)
(* the buffers are set up again                                            *)
crop_commit(s1, f1, log, e, cr) ==
    LET x1 == f1.x + cdiv2(f1.u - cr.u)
        y1 == f1.y + cdiv2(f1.v - cr.v)
    IN  IF cr.hung
        THEN Hung(s1, [f1 EXCEPT !.u = cr.u, !.v = cr.v],
                  log \o <<EvWriteFb>>)
        ELSE Nested(sensor_set_framebuffers(
                        s1,
                        [f1 EXCEPT !.u = cr.u, !.v = cr.v,
                                   !.x = IF x1 % 2 # 0 THEN x1 - 1 ELSE x1,
                                   !.y = IF y1 % 2 # 0 THEN y1 - 1 ELSE y1],
                        -1, e),
                    0, log \o <<EvWriteFb>>, <<>>)

(* the crop loop, with the ratio best_r : best_c the search found *)
crop_by_ratio(s1, f1, bpp, log, e, best_c) ==
    LET window_w == f1.u
        window_h == f1.v
        best_r == round_ratio(IM_MAX(window_w, window_h),
                              IM_MIN(window_w, window_h), best_c)
        u_sub == IF window_w > window_h THEN best_r ELSE best_c
        v_sub == IF window_w > window_h THEN best_c ELSE best_r
    IN crop_commit(s1, f1, log, e,
                   crop_loop(f1.u, f1.v, u_sub, v_sub, bpp,
                             framebuffer_get_buffer_size, MaxCropIter))

(* the window of f1 does not fit with bpp bytes per pixel: shrink it *)
crop_window(s1, f1, bpp, log, e) ==
    LET max == IM_MAX(f1.u, f1.v)
        min == IM_MIN(f1.u, f1.v)
    IN crop_by_ratio(s1, f1, bpp, log, e,
                     ratio_search(max, min, 1, min, 1, MaxRatioIter))

(* after sensor_set_pixformat(PIXFORMAT_BAYER), whose result r1 is not     *)
(* looked at: bpp is 1                                                     *)
crop_after_switch(r1, e) ==
    IF ~u32_gt(r1.fb.u * r1.fb.v, framebuffer_get_buffer_size)
    THEN Result(r1.sensor, r1.fb, 0, r1.calls)
    ELSE crop_window(r1.sensor, r1.fb, 1, r1.calls, e)

sensor_auto_crop_framebuffer(s, f, e) ==
    LET bpp == sensor_get_dst_bpp(s)
    IN  IF bpp = 0
        THEN Result(s, f, 0, <<>>)
        ELSE IF ~u32_gt(f.u * f.v * bpp, framebuffer_get_buffer_size)
        THEN Result(s, f, 0, <<>>)
        ELSE IF s.pixformat \in {PIXFORMAT_RGB565, PIXFORMAT_YUV422}
        THEN crop_after_switch(
                 sensor_set_pixformat(s, f, PIXFORMAT_BAYER, e), e)
        ELSE crop_window(s, f, bpp, <<>>, e)

---------------------------------------------------------------------------
(* Detection protocol and dispatch.                                        *)
(*                                                                         *)
(* What the bus and the chip hand back during one sensor_probe_init:       *)
(*   scans[k] - the address list omv_i2c_scan fills on the k-th scan       *)
(*   gc, b, b2, w, w2 - the values read from GC_CHIP_ID (readb), from      *)
(*        OV_CHIP_ID (readb), from a 16-bit-addressed byte register        *)
(*        (readb2), and from ON_CHIP_ID (readw, readw2)                    *)
(*   paj  - paj6100_detect()                                               *)
(*   xclk - sensor_set_xclk_frequency()                                    *)
(*   init - the family bring-up routine's result                           *)
(*   cfg  - what the bring-up routine installs in the sensor record        *)
EvScan(s, found) ==
    "omv_i2c_scan[reset_pol=" \o s.reset_pol \o ",power_pol=" \o s.power_pol
    \o (IF found THEN "]:found" ELSE "]:none")
EvI2cInit == "omv_i2c_init"
EvPajDetect == "paj6100_detect"
EvXclk == "sensor_set_xclk_frequency"
EvInit(family) == family \o "_init"

Enabled(family) == family \in board.families

RECURSIVE detect_loop(_, _, _, _)
detect_loop(s, devs_list, i, e) ==
    IF i > IM_MIN(Len(devs_list), OMV_CSI_MAX_DEVICES)
    THEN [slv_addr |-> 0, sensor |-> s]
    ELSE LET slv_addr == devs_list[i]
         IN
         IF slv_addr = OV2640_SLV_ADDR /\ Enabled("ov2640")
         THEN [slv_addr |-> slv_addr, sensor |-> set_chip_id(s, e.b)]
         ELSE IF /\ slv_addr = OV5640_SLV_ADDR
                 /\ (Enabled("ov5640") \/ Enabled("gc2145"))
         THEN [slv_addr |-> slv_addr,
               sensor |-> IF e.gc % 256 # GC2145_ID
                          THEN set_chip_id(s, e.b2)
                          ELSE set_chip_id(s, e.gc)]
         ELSE IF /\ slv_addr = OV7725_SLV_ADDR
                 /\ \/ Enabled("ov7725")
                    \/ Enabled("ov7670")
                    \/ Enabled("ov7690")
         THEN [slv_addr |-> slv_addr, sensor |-> set_chip_id(s, e.b)]
         ELSE IF slv_addr = MT9V0XX_SLV_ADDR /\ Enabled("mt9v0xx")
         THEN [slv_addr |-> slv_addr, sensor |-> [s EXCEPT !.chip_id_w = e.w]]
         ELSE IF slv_addr = MT9M114_SLV_ADDR /\ Enabled("mt9m114")
         THEN [slv_addr |-> slv_addr, sensor |-> [s EXCEPT !.chip_id_w = e.w2]]
         ELSE IF slv_addr = LEPTON_SLV_ADDR /\ Enabled("lepton")
         THEN [slv_addr |-> slv_addr, sensor |-> set_chip_id(s, LEPTON_ID)]
         ELSE IF /\ slv_addr = HM0XX0_SLV_ADDR
                 /\ (Enabled("hm01b0") \/ Enabled("hm0360"))
         THEN [slv_addr |-> slv_addr, sensor |-> set_chip_id(s, e.b2)]
         ELSE IF slv_addr = FROGEYE2020_SLV_ADDR /\ Enabled("frogeye2020")
         THEN [slv_addr |-> slv_addr,
               sensor |-> [s EXCEPT !.chip_id_w = FROGEYE2020_ID]]
         ELSE IF slv_addr = PAG7920_SLV_ADDR /\ Enabled("pag7920")
         THEN [slv_addr |-> slv_addr,
               sensor |-> [s EXCEPT !.chip_id_w =
                               ((e.w * 256) % 65536) + (e.w \div 256)]]
         ELSE detect_loop(s, devs_list, i + 1, e)

(* sensor.slv_addr = sensor_detect() on the k-th scan *)
detected(s, d) ==
    [sensor |-> [d.sensor EXCEPT !.slv_addr = d.slv_addr],
     calls |-> <<EvScan(s, d.slv_addr # 0)>>]

sensor_detect(s, k, e) == detected(s, detect_loop(s, e.scans[k], 1, e))

(* faulty variant: the fourth scan keeps the reset pin inverted *)
hypothesis_stuck(k) ==
    IF k = 2 THEN [pin |-> "RESET", pol |-> ACTIVE_LOW, level |-> "1"]
    ELSE IF k = 3 THEN [pin |-> "POWER", pol |-> ACTIVE_LOW, level |-> "1"]
    ELSE [pin |-> "RESET", pol |-> ACTIVE_LOW, level |-> "1"]

(* faulty variant: the fourth scan is made with the reset line asserted *)
hypothesis_asserted(k) ==
    IF k = 2 THEN [pin |-> "RESET", pol |-> ACTIVE_LOW, level |-> "1"]
    ELSE IF k = 3 THEN [pin |-> "POWER", pol |-> ACTIVE_LOW, level |-> "1"]
    ELSE [pin |-> "RESET", pol |-> ACTIVE_HIGH, level |-> "1"]

(* what sensor_probe_init changes before the k-th scan (k = 2, 3, 4):      *)
(* the pin it re-drives, the level, and the polarity it records            *)
hypothesis(k) ==
    IF k = 2 THEN [pin |-> "RESET", pol |-> ACTIVE_LOW, level |-> "1"]
    ELSE IF k = 3 THEN [pin |-> "POWER", pol |-> ACTIVE_LOW, level |-> "1"]
    ELSE [pin |-> "RESET", pol |-> ACTIVE_HIGH, level |-> "0"]

(* what was done before a scan, and the scan *)
Logged(before, d) == [sensor |-> d.sensor, calls |-> before \o d.calls]

(* the k-th scan, after the pin of its hypothesis is re-driven *)
rescan(s, k, e) ==
    LET hy == hypothesis(k)
        has == IF hy.pin = "RESET" THEN board.reset_pin ELSE board.power_pin
    IN Logged(IF has THEN <<EvGpio(hy.pin, hy.level), EvDelay>> ELSE <<>>,
              sensor_detect(IF ~has THEN s
                            ELSE IF hy.pin = "RESET"
                            THEN [s EXCEPT !.reset_pol = hy.pol]
                            ELSE [s EXCEPT !.power_pol = hy.pol],
                            k, e))

(* d is the k-th scan: the next hypothesis is tried only when it found     *)
(* nothing and k < 4                                                       *)
RECURSIVE probe_scan(_, _, _, _)
probe_scan(d, k, e, log) ==
    IF d.sensor.slv_addr # 0 \/ k = 4
    THEN Logged(log, d)
    ELSE probe_scan(rescan(d.sensor, k + 1, e), k + 1, e, log \o d.calls)

(* switch (sensor.chip_id_w): the family owning an identifier, its         *)
(* canonical identifier and whether its clock is configured first.         *)
Family(name, id, xclk) == [name |-> name, id |-> id, xclk |-> xclk]
NoFamily == Family("none", 0, FALSE)

dispatch(chip_id_w) ==
    IF chip_id_w = OV2640_ID /\ Enabled("ov2640")
    THEN Family("ov2640", chip_id_w, TRUE)
    ELSE IF chip_id_w = OV5640_ID /\ Enabled("ov5640")
    THEN Family("ov5640", chip_id_w, TRUE)
    ELSE IF chip_id_w = OV7670_ID /\ Enabled("ov7670")
    THEN Family("ov7670", chip_id_w, TRUE)
    ELSE IF chip_id_w = OV7690_ID /\ Enabled("ov7690")
    THEN Family("ov7690", chip_id_w, TRUE)
    ELSE IF chip_id_w = OV7725_ID /\ Enabled("ov7725")
    THEN Family("ov7725", chip_id_w, FALSE)
    ELSE IF chip_id_w = OV9650_ID /\ Enabled("ov9650")
    THEN Family("ov9650", chip_id_w, FALSE)
    ELSE IF /\ chip_id_w \in {MT9V0X2_ID_V_1, MT9V0X2_ID_V_2}
            /\ Enabled("mt9v0xx")
    THEN Family("mt9v0xx", MT9V0X2_ID, TRUE)
    ELSE IF chip_id_w \in {MT9V0X2_ID, MT9V0X4_ID} /\ Enabled("mt9v0xx")
    THEN Family("mt9v0xx", chip_id_w, TRUE)
    ELSE IF chip_id_w = MT9M114_ID /\ Enabled("mt9m114")
    THEN Family("mt9m114", chip_id_w, TRUE)
    ELSE IF chip_id_w = LEPTON_ID /\ Enabled("lepton")
    THEN Family("lepton", chip_id_w, TRUE)
    ELSE IF chip_id_w = HM01B0_ID /\ Enabled("hm01b0")
    THEN Family("hm01b0", chip_id_w, TRUE)
    ELSE IF chip_id_w = HM0360_ID /\ Enabled("hm0360")
    THEN Family("hm0360", chip_id_w, TRUE)
    ELSE IF chip_id_w = GC2145_ID /\ Enabled("gc2145")
    THEN Family("gc2145", chip_id_w, TRUE)
    ELSE IF chip_id_w = PAG7920_ID /\ Enabled("pag7920")
    THEN Family("pag7920", chip_id_w, TRUE)
    ELSE IF chip_id_w = PAJ6100_ID /\ Enabled("paj6100")
    THEN Family("paj6100", chip_id_w, TRUE)
    ELSE IF chip_id_w = FROGEYE2020_ID /\ Enabled("frogeye2020")
    THEN Family("frogeye2020", chip_id_w, TRUE)
    ELSE NoFamily

(* the family bring-up routine fills the capability slots *)
family_init(s, e) ==
    [s EXCEPT !.caps = e.cfg.caps,
              !.mono_bpp = e.cfg.mono_bpp,
              !.raw_output = e.cfg.raw_output,
              !.rgb_swap = e.cfg.rgb_swap,
              !.yuv_swap = e.cfg.yuv_swap]

(* faulty variant: a clock failure is reported as a bring-up failure *)
probe_bringup_one_code(sf, f, e, log, fam) ==
    IF fam.xclk /\ e.xclk # 0
    THEN Result(sf, f, SENSOR_ERROR_ISC_INIT_FAILED, log \o <<EvXclk>>)
    ELSE Result(family_init(sf, e), f,
                IF e.init # 0 THEN SENSOR_ERROR_ISC_INIT_FAILED ELSE 0,
                log \o (IF fam.xclk THEN <<EvXclk>> ELSE <<>>)
                    \o <<EvInit(fam.name)>>)

(* the external clock and the bring-up routine of the family *)
probe_bringup(sf, f, e, log, fam) ==
    IF fam.xclk /\ e.xclk # 0
    THEN Result(sf, f, SENSOR_ERROR_TIM_INIT_FAILED, log \o <<EvXclk>>)
    ELSE Result(family_init(sf, e), f,
                IF e.init # 0 THEN SENSOR_ERROR_ISC_INIT_FAILED ELSE 0,
                log \o (IF fam.xclk THEN <<EvXclk>> ELSE <<>>)
                    \o <<EvInit(fam.name)>>)

(* faulty variant: the identifier read from the chip is kept as it is *)
probe_dispatch_raw(sd, f, e, log, fam) ==
    IF fam = NoFamily
    THEN Result(sd, f, SENSOR_ERROR_ISC_UNSUPPORTED, log)
    ELSE probe_bringup(sd, f, e, log, fam)

probe_dispatch(sd, f, e, log, fam) ==
    IF fam = NoFamily
    THEN Result(sd, f, SENSOR_ERROR_ISC_UNSUPPORTED, log)
    ELSE probe_bringup([sd EXCEPT !.chip_id_w = fam.id], f, e, log, fam)

(* sd is the sensor record after the scans, and after the SPI detection    *)
(* when the scans found no device                                          *)
probe_detected(sd, f, e, log, found) ==
    IF ~found
    THEN Result(sd, f, SENSOR_ERROR_ISC_UNDETECTED, log)
    ELSE probe_dispatch(sd, f, e, log, dispatch(sd.chip_id_w))

(* no device on the I2C bus: try the SPI bus *)
probe_spi(sc, f, e) ==
    IF sc.sensor.slv_addr # 0
    THEN probe_detected(sc.sensor, f, e, sc.calls, TRUE)
    ELSE IF ~Enabled("paj6100")
    THEN probe_detected(sc.sensor, f, e, sc.calls, FALSE)
    ELSE IF e.paj
    THEN probe_detected([sc.sensor EXCEPT !.chip_id_w = PAJ6100_ID,
                                          !.power_pol = ACTIVE_LOW,
                                          !.reset_pol = ACTIVE_LOW],
                        f, e, sc.calls \o <<EvPajDetect>>, TRUE)
    ELSE probe_detected(sc.sensor, f, e, sc.calls \o <<EvPajDetect>>, FALSE)

sensor_probe_init(s, f, e) ==
    probe_spi(
        probe_scan(
            sensor_detect(
                (* power cycle and reset with the original polarities *)
                [s EXCEPT
                   !.power_pol = IF board.power_pin THEN ACTIVE_HIGH ELSE @,
                   !.reset_pol = IF board.reset_pin THEN ACTIVE_HIGH ELSE @],
                1, e),
            1, e,
            (IF board.power_pin
             THEN <<EvGpio("POWER", "1"), EvDelay,
                    EvGpio("POWER", "0"), EvDelay>> ELSE <<>>)
            \o (IF board.reset_pin
                THEN <<EvGpio("RESET", "1"), EvDelay,
                       EvGpio("RESET", "0"), EvDelay>> ELSE <<>>)
            \o <<EvI2cInit, EvDelay>>),
        f, e)

---------------------------------------------------------------------------
(* static const char *sensor_errors[] of sensor_strerror *)
sensor_errors ==
    << "No error.",
       "Sensor control failed.",
       "The requested operation is not supported by the image sensor.",
       "Failed to detect the image sensor or image sensor is detached.",
       "The detected image sensor is not supported.",
       "Failed to initialize the image sensor.",
       "Failed to initialize the external clock.",
       "Failed to initialize the CSI DMA.",
       "Failed to initialize the CSI interface.",
       "An low level I/O error has occurred.",
       "Frame capture has failed.",
       "Frame capture has timed out.",
       "Frame size is not supported or is not set.",
       "Pixel format is not supported or is not set.",
       "Window is not supported or is not set.",
       "Frame rate is not supported or is not set.",
       "An invalid argument is used.",
       "The requested operation is not supported on the current pixel format.",
       "Frame buffer error.",
       "Frame buffer overflow, try reducing the frame size.",
       "JPEG frame buffer overflow." >>

UnknownError == "Unknown error."

(* what lies behind the table is not known: a read past its end yields a   *)
(* pointer that may or may not be one of the strings above                 *)
NotADescription == "<not a description>"
PastTheTable == {NotADescription, UnknownError} \cup Range(sensor_errors)

(* the read of sensor_errors[i], i counted from 0 as in the code *)
EvReadTable(i) == "read:sensor_errors[" \o ToString(i) \o "]"

(* error = ((error < 0) ? (error * -1) : error) *)
magnitude(error) == IF error < 0 THEN error * (-1) ELSE error

(* the strings sensor_strerror(error) may return, each with the reads made *)
sensor_strerror(error) ==
    LET i == magnitude(error)
    IN  IF i > Len(sensor_errors)
        THEN {[text |-> UnknownError, calls |-> <<>>]}
        ELSE IF i < Len(sensor_errors)
        THEN {[text |-> sensor_errors[i + 1], calls |-> <<EvReadTable(i)>>]}
        ELSE {[text |-> t, calls |-> <<EvReadTable(i)>>] : t \in PastTheTable}

---------------------------------------------------------------------------
(* Scanline copy, on builds without OMV_CSI_DMA_MEMCPY_ENABLE.             *)
(*                                                                         *)
(* src is the scanline the sensor put out, a sequence of bytes; dst is the *)
(* byte address the driver passes, counted from the start of the frame     *)
(* buffer.  A 16-bit element is stored low byte first.  What a call writes *)
(* is a sequence of [at |-> byte address, val |-> byte].                   *)
EvWriteDst(at) == "write:dst[" \o ToString(at) \o "]"

rd8(src, i) == src[i + 1]
rd16(src, i) == src[2 * i + 1] + 256 * src[2 * i + 2]

REV16(x) == (x % 256) * 256 + (x \div 256)

(* a store through an 8-bit pointer, and byte k of a store through a      *)
(* 16-bit pointer                                                          *)
wr8(at, x) == [at |-> at, val |-> x % 256]
wr16(at, x, k) ==
    [at |-> at + k, val |-> IF k = 0 THEN x % 256 ELSE x \div 256]

(* unaligned_memcpy(dst, src, n): n bytes, in order *)
unaligned_memcpy(dst, src, n) ==
    [k \in 1 .. n |-> wr8(dst + k - 1, rd8(src, k - 1))]

(* unaligned_2_to_1_memcpy(dst, src16, n): the low byte of n elements *)
unaligned_2_to_1_memcpy(dst, src, n) ==
    [k \in 1 .. n |-> wr8(dst + k - 1, rd16(src, k - 1))]

(* unaligned_memcpy_rev16(dst16, src16, n): n elements, bytes swapped *)
unaligned_memcpy_rev16(dst, src, n) ==
    [k \in 1 .. 2 * n |->
        wr16(dst + 2 * ((k - 1) \div 2),
             REV16(rd16(src, (k - 1) \div 2)), (k - 1) % 2)]

(* copy_transposed_line(dstp, srcp) for 8-bit dstp and srcp *)
copy_transposed_line(f, dst, src) ==
    [k \in 1 .. f.u |-> wr8(dst + (k - 1) * f.v, rd8(src, k - 1))]

(* copy_transposed_line(dst, src16): 8-bit dstp, 16-bit srcp *)
copy_transposed_line_y(f, dst, src) ==
    [k \in 1 .. f.u |-> wr8(dst + (k - 1) * f.v, rd16(src, k - 1))]

(* copy_transposed_line(dst16, src16) *)
copy_transposed_line_16(f, dst, src) ==
    [k \in 1 .. 2 * f.u |->
        wr16(dst + 2 * ((k - 1) \div 2) * f.v,
             rd16(src, (k - 1) \div 2), (k - 1) % 2)]

(* copy_transposed_line_rev16(dst16, src16) *)
copy_transposed_line_rev16(f, dst, src) ==
    [k \in 1 .. 2 * f.u |->
        wr16(dst + 2 * ((k - 1) \div 2) * f.v,
             REV16(rd16(src, (k - 1) \div 2)), (k - 1) % 2)]

(* faulty variant: a transposed line is laid out along the row *)
copy_line_writes_flat(s, f, src, dst) ==
    IF s.pixformat \in {PIXFORMAT_BAYER, PIXFORMAT_GRAYSCALE}
    THEN unaligned_memcpy(dst, src, f.u)
    ELSE <<>>

(* the bytes sensor_copy_line writes, in order *)
copy_line_writes(s, f, src, dst) ==
    IF s.pixformat = PIXFORMAT_BAYER
    THEN IF ~s.transpose
         THEN unaligned_memcpy(dst, src, f.u)
         ELSE copy_transposed_line(f, dst, src)
    ELSE IF s.pixformat = PIXFORMAT_GRAYSCALE
    THEN IF s.mono_bpp = 1
         THEN IF ~s.transpose
              THEN unaligned_memcpy(dst, src, f.u)
              ELSE copy_transposed_line(f, dst, src)
         ELSE IF ~s.transpose
              THEN unaligned_2_to_1_memcpy(dst, src, f.u)
              ELSE copy_transposed_line_y(f, dst, src)
    ELSE IF s.pixformat \in {PIXFORMAT_RGB565, PIXFORMAT_YUV422}
    THEN IF /\ ~board.hw_swap
            /\ \/ s.pixformat = PIXFORMAT_RGB565 /\ s.rgb_swap
               \/ s.pixformat = PIXFORMAT_YUV422 /\ s.yuv_swap
         THEN IF ~s.transpose
              THEN unaligned_memcpy_rev16(dst, src, f.u)
              ELSE copy_transposed_line_rev16(f, dst, src)
         ELSE IF ~s.transpose
              THEN unaligned_memcpy(dst, src, f.u * 2)
              ELSE copy_transposed_line_16(f, dst, src)
    ELSE <<>>

sensor_copy_line(s, f, src, dst) ==
    Result(s, f, 0,
           [k \in 1 .. Len(copy_line_writes(s, f, src, dst)) |->
               EvWriteDst(copy_line_writes(s, f, src, dst)[k].at)])

(* memory after the writes w, the later write to an address winning *)
Store(mem, w) ==
    [a \in DOMAIN mem |->
        IF \E k \in DOMAIN w : w[k].at = a
        THEN w[CHOOSE k \in DOMAIN w :
                  /\ w[k].at = a
                  /\ \A j \in DOMAIN w : w[j].at = a => j <= k].val
        ELSE mem[a]]

---------------------------------------------------------------------------
(* The frame-buffer collaborator records the format of a captured frame in *)
(* the cached MAIN_FB()->pixfmt.                                           *)
frame_captured(s, f) ==
    Result(s, [f EXCEPT !.pixfmt = s.pixformat], 0, <<EvWriteFb>>)

(* The capture driver clears the first-line marker and the drop flag when  *)
(* a frame ends, so that the next scanline is the first of a new frame.    *)
frame_ended(s, f) ==
    Result([s EXCEPT !.first_line = FALSE, !.drop_frame = FALSE], f, 0,
           <<EvWriteSensor>>)

---------------------------------------------------------------------------
(* Boards (build configurations) and what can sit on the bus.              *)
AllFamilies == {"ov2640", "ov5640", "ov7670", "ov7690", "ov7725", "ov9650",
                "mt9v0xx", "mt9m114", "lepton", "hm01b0", "hm0360", "gc2145",
                "pag7920", "paj6100", "frogeye2020"}

SmallBuffer == 1000
LargeBuffer == 2000

BoardA == [families |-> AllFamilies \ {"ov7690"}, imu |-> FALSE,
           hw_crop |-> FALSE, hw_swap |-> FALSE,
           power_pin |-> TRUE, reset_pin |-> TRUE,
           buffer_size |-> SmallBuffer]
BoardB == [families |-> AllFamilies \ {"ov7670"}, imu |-> TRUE,
           hw_crop |-> TRUE, hw_swap |-> TRUE,
           power_pin |-> TRUE, reset_pin |-> TRUE,
           buffer_size |-> LargeBuffer]
Boards == {BoardA, BoardB}

CfgAll == [caps |-> AllSlots, mono_bpp |-> 2, raw_output |-> FALSE,
           rgb_swap |-> TRUE, yuv_swap |-> FALSE]
CfgGeo == [caps |-> {"set_pixformat", "set_framesize"}, mono_bpp |-> 1,
           raw_output |-> TRUE, rgb_swap |-> FALSE, yuv_swap |-> FALSE]
CfgNone == [caps |-> {}, mono_bpp |-> 1, raw_output |-> FALSE,
            rgb_swap |-> FALSE, yuv_swap |-> FALSE]
ChipConfigs == {CfgAll, CfgGeo, CfgNone}

UNKNOWN_ADDR == 16
UNKNOWN_ID == 17

Dev(addr, gc, b, b2, w, w2) ==
    [addr |-> addr, gc |-> gc, b |-> b, b2 |-> b2, w |-> w, w2 |-> w2]

DevOV76 == Dev(OV7725_SLV_ADDR, 0, OV7670_ID, 0, 0, 0)

Devices ==
    { Dev(OV2640_SLV_ADDR, 0, OV2640_ID, 0, 0, 0),
      Dev(OV2640_SLV_ADDR, 0, OV9650_ID, 0, 0, 0),
      Dev(OV2640_SLV_ADDR, 0, UNKNOWN_ID, 0, 0, 0),
      Dev(OV5640_SLV_ADDR, 0, 0, OV5640_ID, 0, 0),
      Dev(OV5640_SLV_ADDR, GC2145_ID, 0, 0, 0, 0),
      DevOV76,
      Dev(OV7725_SLV_ADDR, 0, OV7725_ID, 0, 0, 0),
      Dev(MT9V0XX_SLV_ADDR, 0, 0, 0, MT9V0X2_ID_V_1, 0),
      Dev(MT9V0XX_SLV_ADDR, 0, 0, 0, MT9V0X2_ID_V_2, 0),
      Dev(MT9V0XX_SLV_ADDR, 0, 0, 0, MT9V0X2_ID, 0),
      Dev(MT9V0XX_SLV_ADDR, 0, 0, 0, MT9V0X4_ID, 0),
      Dev(MT9M114_SLV_ADDR, 0, 0, 0, 0, MT9M114_ID),
      Dev(LEPTON_SLV_ADDR, 0, 0, 0, 0, 0),
      Dev(HM0XX0_SLV_ADDR, 0, 0, HM01B0_ID, 0, 0),
      Dev(HM0XX0_SLV_ADDR, 0, 0, HM0360_ID, 0, 0),
      Dev(FROGEYE2020_SLV_ADDR, 0, 0, 0, 0, 0),
      Dev(PAG7920_SLV_ADDR, 0, 0, 0, 8313, 0) }

(* the device answers the k-th scan only (k = 0: never); a noisy bus also  *)
(* carries a device with an address of no family on every scan             *)
ProbeEnv(d, k, noisy, paj, xclk, init, cfg) ==
    [scans |-> [i \in 1..4 |->
                   (IF noisy THEN <<UNKNOWN_ADDR>> ELSE <<>>)
                   \o (IF i = k THEN <<d.addr>> ELSE <<>>)],
     gc |-> d.gc, b |-> d.b, b2 |-> d.b2, w |-> d.w, w2 |-> d.w2,
     paj |-> paj, xclk |-> xclk, init |-> init, cfg |-> cfg]

XclkResults == {0, SENSOR_ERROR_CTL_UNSUPPORTED}

(* startup of the control-surface specification: one chip, answering the   *)
(* first scan or not at all                                                *)
BootEnvs ==
    { ProbeEnv(DevOV76, k, FALSE, FALSE, 0, 0, cfg) :
        k \in {0, 1}, cfg \in {CfgAll, CfgGeo} }
    \cup { ProbeEnv(DevOV76, 1, FALSE, FALSE, x, i, CfgNone) :
              x \in XclkResults, i \in {0, -1} }
    \cup { ProbeEnv(Dev(OV2640_SLV_ADDR, 0, UNKNOWN_ID, 0, 0, 0), 1, FALSE,
                    FALSE, 0, 0, CfgNone) }

(* the detection specification: every device under every hypothesis *)
ProbeEnvs ==
    { ProbeEnv(d, k, noisy, paj, xclk, init, cfg) :
        d \in Devices, k \in 0..4, noisy \in BOOLEAN, paj \in BOOLEAN,
        xclk \in XclkResults, init \in HookResults, cfg \in {CfgAll} }

---------------------------------------------------------------------------
(* Arguments the caller passes.                                            *)
FRAMESIZE_QQQQVGA == 7
FRAMESIZE_HQQQQVGA == 12

FrameSizeArgs == {FRAMESIZE_INVALID, FRAMESIZE_QQQQVGA, FRAMESIZE_HQQQQVGA}
WindowArgs == { <<0, 0, 30, 20>>, <<4, 2, 25, 15>> }
FramerateArgs == {0, 30}
LevelArgs == {0, 1}

---------------------------------------------------------------------------
(* State after sensor_init0(): memset(&sensor, 0, sizeof(sensor_t)).       *)
ZeroSensor ==
    [slv_addr |-> 0, chip_id_w |-> 0,
     reset_pol |-> ACTIVE_LOW, power_pol |-> ACTIVE_LOW,
     caps |-> {},
     pixformat |-> PIXFORMAT_INVALID, framesize |-> FRAMESIZE_INVALID,
     framerate |-> 0, hmirror |-> FALSE, vflip |-> FALSE,
     transpose |-> FALSE, auto_rotation |-> FALSE,
     gainceiling |-> 0, sde |-> 0,
     first_line |-> FALSE, drop_frame |-> FALSE,
     last_frame_ms |-> 0, last_frame_ms_valid |-> FALSE,
     disable_full_flush |-> FALSE, disable_delays |-> FALSE,
     raw_output |-> FALSE, mono_bpp |-> 0,
     rgb_swap |-> FALSE, yuv_swap |-> FALSE,
     vsync_callback |-> "NULL", frame_callback |-> "NULL",
     color_palette |-> "NULL"]

ZeroFb ==
    [x |-> 0, y |-> 0, w |-> 0, h |-> 0, u |-> 0, v |-> 0,
     pixfmt |-> PIXFORMAT_INVALID, frame_size |-> 0]

NoOp == [name |-> "none", args |-> <<>>]

(* the frame buffer memory, in bytes; -1 is a byte never written *)
MemSize == 12

NoCapture ==
    [active |-> FALSE, seed |-> 0, row |-> 0,
     dst |-> [a \in 0 .. (MemSize - 1) |-> -1]]

Init ==
    /\ sensor = ZeroSensor
    /\ fb = ZeroFb
    /\ board \in Boards
    /\ pc = "boot"
    /\ op = NoOp
    /\ ret = 0
    /\ calls = <<>>
    /\ pre = [sensor |-> ZeroSensor, fb |-> ZeroFb]
    /\ tick = 0
    /\ frames = <<>>
    /\ capture = NoCapture

(* one public call: r is what the function computes from the current state *)
Invoke(name, args, r) ==
    /\ pc' = IF r.hung THEN "hung" ELSE "ret"
    /\ op' = [name |-> name, args |-> args]
    /\ pre' = [sensor |-> sensor, fb |-> fb]
    /\ sensor' = r.sensor
    /\ fb' = r.fb
    /\ ret' = r.ret
    /\ calls' = r.calls
    /\ UNCHANGED <<board, tick>>

(* sensor_abort(true, false) cancels the capture in flight *)
Aborted(r) ==
    IF EvAbort \in Range(r.calls)
    THEN [capture EXCEPT !.active = FALSE]
    ELSE capture

Call(name, args, r) ==
    /\ Invoke(name, args, r)
    /\ capture' = Aborted(r)
    /\ UNCHANGED frames

(* the call has returned to its caller, which may issue the next one; a   *)
(* caller whose sensor_probe_init failed has no sensor to go on with       *)
Return ==
    /\ pc = "ret"
    /\ op.name = "sensor_probe_init" => ret = 0
    /\ pc' = "idle"
    /\ op' = NoOp
    /\ ret' = 0
    /\ calls' = <<>>
    /\ pre' = [sensor |-> sensor, fb |-> fb]
    /\ UNCHANGED <<sensor, fb, board, tick, frames, capture>>

(* bus_id and bus_speed have no effect on the record; args keeps what the   *)
(* bus and the chip handed back during the call                            *)
call_sensor_probe_init(e) ==
    /\ pc = "boot"
    /\ Call("sensor_probe_init", <<e>>, sensor_probe_init(sensor, fb, e))

call_sensor_reset ==
    /\ pc = "idle"
    /\ \E h \in HookResults :
          Call("sensor_reset", <<>>, sensor_reset(sensor, fb, Env(h, 0, 0, 0)))

call_sensor_set_pixformat(pixformat) ==
    /\ pc = "idle"
    /\ \E h \in HookResults, b \in CollabResults, c \in CollabResults :
          Call("sensor_set_pixformat", <<pixformat>>,
               sensor_set_pixformat(sensor, fb, pixformat, Env(h, b, c, 0)))

call_sensor_set_framesize(framesize) ==
    /\ pc = "idle"
    /\ \E h \in HookResults, b \in CollabResults, c \in CollabResults :
          Call("sensor_set_framesize", <<framesize>>,
               sensor_set_framesize(sensor, fb, framesize, Env(h, b, c, 0)))

call_sensor_set_windowing(x, y, w, h) ==
    /\ pc = "idle"
    /\ \E b \in CollabResults, c \in CollabResults :
          Call("sensor_set_windowing", <<x, y, w, h>>,
               sensor_set_windowing(sensor, fb, x, y, w, h, Env(0, b, c, 0)))

call_sensor_set_framerate(framerate) ==
    /\ pc = "idle"
    /\ \E h \in HookResults :
          Call("sensor_set_framerate", <<framerate>>,
               sensor_set_framerate(sensor, fb, framerate, Env(h, 0, 0, 0)))

call_sensor_set_gainceiling(gainceiling) ==
    /\ pc = "idle"
    /\ \E h \in HookResults :
          Call("sensor_set_gainceiling", <<gainceiling>>,
               sensor_set_gainceiling(sensor, fb, gainceiling,
                                      Env(h, 0, 0, 0)))

call_sensor_set_special_effect(sde) ==
    /\ pc = "idle"
    /\ \E h \in HookResults :
          Call("sensor_set_special_effect", <<sde>>,
               sensor_set_special_effect(sensor, fb, sde, Env(h, 0, 0, 0)))

call_sensor_set_hmirror(enable) ==
    /\ pc = "idle"
    /\ \E h \in HookResults :
          Call("sensor_set_hmirror", <<enable>>,
               sensor_set_hmirror(sensor, fb, enable, Env(h, 0, 0, 0)))

call_sensor_set_vflip(enable) ==
    /\ pc = "idle"
    /\ \E h \in HookResults :
          Call("sensor_set_vflip", <<enable>>,
               sensor_set_vflip(sensor, fb, enable, Env(h, 0, 0, 0)))

call_sensor_set_transpose(enable) ==
    /\ pc = "idle"
    /\ Call("sensor_set_transpose", <<enable>>,
            sensor_set_transpose(sensor, fb, enable))

call_sensor_set_auto_rotation(enable) ==
    /\ pc = "idle"
    /\ Call("sensor_set_auto_rotation", <<enable>>,
            sensor_set_auto_rotation(sensor, fb, enable))

call_sensor_set_framebuffers(count) ==
    /\ pc = "idle"
    /\ \E b \in CollabResults :
          Call("sensor_set_framebuffers", <<count>>,
               sensor_set_framebuffers(sensor, fb, count, Env(0, b, 0, 0)))

call_sensor_auto_crop_framebuffer ==
    /\ pc = "idle"
    /\ \E h \in HookResults, b \in CollabResults, c \in CollabResults :
          Call("sensor_auto_crop_framebuffer", <<>>,
               sensor_auto_crop_framebuffer(sensor, fb, Env(h, b, c, 0)))

call_sensor_thin_delegate(slot) ==
    /\ pc = "idle"
    /\ \E h \in HookResults :
          Call("sensor_" \o slot, <<>>,
               sensor_thin_delegate(sensor, fb, slot, Env(h, 0, 0, 0)))

call_sensor_sleep(enable) ==
    /\ pc = "idle"
    /\ \E h \in HookResults :
          Call("sensor_sleep", <<enable>>,
               sensor_sleep(sensor, fb, enable, Env(h, 0, 0, 0)))

call_sensor_shutdown(enable) ==
    /\ pc = "idle"
    /\ Call("sensor_shutdown", <<enable>>, sensor_shutdown(sensor, fb, enable))

call_sensor_ioctl(request) ==
    /\ pc = "idle"
    /\ \E h \in HookResults :
          Call("sensor_ioctl", <<request>>,
               sensor_ioctl(sensor, fb, request, Env(h, 0, 0, 0)))

call_sensor_read_reg(reg_addr) ==
    /\ pc = "idle"
    /\ \E r \in RegValues :
          Call("sensor_read_reg", <<reg_addr>>,
               sensor_read_reg(sensor, fb, reg_addr, Env(0, 0, 0, r)))

call_sensor_write_reg(reg_addr, reg_data) ==
    /\ pc = "idle"
    /\ \E h \in HookResults :
          Call("sensor_write_reg", <<reg_addr, reg_data>>,
               sensor_write_reg(sensor, fb, reg_addr, reg_data,
                                Env(h, 0, 0, 0)))

call_sensor_get_id ==
    /\ pc = "idle"
    /\ Call("sensor_get_id", <<>>, sensor_get_id(sensor, fb))

call_sensor_set_vsync_callback(vsync_cb) ==
    /\ pc = "idle"
    /\ Call("sensor_set_vsync_callback", <<vsync_cb>>,
            sensor_set_vsync_callback(sensor, fb, vsync_cb))

call_sensor_set_frame_callback(vsync_cb) ==
    /\ pc = "idle"
    /\ Call("sensor_set_frame_callback", <<vsync_cb>>,
            sensor_set_frame_callback(sensor, fb, vsync_cb))

call_sensor_set_color_palette(color_palette) ==
    /\ pc = "idle"
    /\ Call("sensor_set_color_palette", <<color_palette>>,
            sensor_set_color_palette(sensor, fb, color_palette))

call_frame_captured ==
    /\ pc = "idle"
    /\ sensor.pixformat # PIXFORMAT_INVALID
    /\ sensor.framesize # FRAMESIZE_INVALID
    /\ fb.pixfmt # sensor.pixformat
    /\ Call("frame_captured", <<>>, frame_captured(sensor, fb))

call_frame_ended ==
    /\ pc = "idle"
    /\ sensor.first_line
    /\ Call("frame_ended", <<>>, frame_ended(sensor, fb))

(* what the throttle decided for a frame: the tick it read, the interval   *)
(* in force, whether the frame is dropped and the baseline it left         *)
FrameRecord(r) ==
    [tick |-> tick,
     interval |-> IM_DIV(1000, sensor.framerate),
     drop |-> r.sensor.drop_frame,
     baseline |-> r.sensor.last_frame_ms]

MaxFrames == 5

(* one scanline of the capture: the throttle acts on the first of a frame  *)
call_sensor_throttle_framerate ==
    /\ pc = "idle"
    /\ Len(frames) < MaxFrames
    /\ Invoke("sensor_throttle_framerate", <<>>,
              sensor_throttle_framerate(sensor, fb, tick))
    /\ frames' = IF sensor.first_line THEN frames
                 ELSE Append(frames,
                             FrameRecord(
                                 sensor_throttle_framerate(sensor, fb, tick)))
    /\ UNCHANGED capture

(* time passes between two calls *)
Ticks == {0, 40, 100, 110, 150, 260}

Tick(t) ==
    /\ pc = "idle"
    /\ t > tick
    /\ tick' = t
    /\ UNCHANGED <<sensor, fb, board, pc, op, ret, calls, pre, frames,
                   capture>>

(* the caller turns a code into its description *)
call_sensor_strerror(error) ==
    /\ pc = "idle"
    /\ \E d \in sensor_strerror(error) :
          Call("sensor_strerror", <<error>>,
               Result(sensor, fb, d.text, d.calls))

(* The capture driver: byte k of scanline r of the frame the sensor puts   *)
(* out (all bytes of a frame differ), and the address it passes for the    *)
(* scanline: one pixel further per scanline when the frame is transposed,  *)
(* one row further otherwise.                                              *)
MaxLine == 8

SrcByte(seed, r, k) == (seed + 7 * (MaxLine * r + k)) % 256

SourceLine(seed, r, u) == [k \in 1 .. 2 * u |-> SrcByte(seed, r, k - 1)]

LineAddress(s, f, r) ==
    (IF s.transpose THEN r ELSE r * f.u)
    * (IF s.pixformat \in {PIXFORMAT_RGB565, PIXFORMAT_YUV422} THEN 2 ELSE 1)

(* a frame starts: nothing of it is in the frame buffer yet *)
frame_started(seed) ==
    /\ pc = "idle"
    /\ fb.u > 0 /\ fb.v > 0
    /\ fb.u * fb.v * 2 <= MemSize
    /\ capture' = [NoCapture EXCEPT !.active = TRUE, !.seed = seed]
    /\ UNCHANGED <<sensor, fb, board, pc, op, ret, calls, pre, tick, frames>>

(* the next scanline of the frame is handed to sensor_copy_line *)
call_sensor_copy_line ==
    /\ pc = "idle"
    /\ capture.active
    /\ capture.row < fb.v
    /\ Invoke("sensor_copy_line", <<capture.row>>,
              sensor_copy_line(sensor, fb,
                               SourceLine(capture.seed, capture.row, fb.u),
                               LineAddress(sensor, fb, capture.row)))
    /\ capture' =
          [capture EXCEPT
             !.row = @ + 1,
             !.dst = Store(@, copy_line_writes(
                                  sensor, fb,
                                  SourceLine(capture.seed, capture.row, fb.u),
                                  LineAddress(sensor, fb, capture.row)))]
    /\ UNCHANGED frames

(* Format and geometry: detection at startup, then the calls that read or  *)
(* write the pixel format, the frame size and the MAIN_FB() geometry.       *)
Next ==
    \/ \E e \in BootEnvs : call_sensor_probe_init(e)
    \/ call_sensor_reset
    \/ \E p \in PixFormats : call_sensor_set_pixformat(p)
    \/ \E fs \in FrameSizeArgs : call_sensor_set_framesize(fs)
    \/ \E win \in WindowArgs :
          call_sensor_set_windowing(win[1], win[2], win[3], win[4])
    \/ \E en \in BOOLEAN : call_sensor_set_transpose(en)
    \/ \E en \in BOOLEAN : call_sensor_set_auto_rotation(en)
    \/ call_sensor_set_framebuffers(-1)
    \/ call_sensor_auto_crop_framebuffer
    \/ call_frame_captured
    \/ Return

Spec == Init /\ [][Next]_vars

(* The public control surface (every call that returns a code) on one     *)
(* board, with one frame size and one window.                              *)
CtlFrameSizeArgs == {FRAMESIZE_INVALID, FRAMESIZE_QQQQVGA}
CtlWindowArgs == { <<4, 2, 25, 15>> }

InitCtl == Init /\ board = BoardB

NextCtl ==
    \/ \E e \in BootEnvs : call_sensor_probe_init(e)
    \/ call_sensor_reset
    \/ \E p \in PixFormats : call_sensor_set_pixformat(p)
    \/ \E fs \in CtlFrameSizeArgs : call_sensor_set_framesize(fs)
    \/ \E win \in CtlWindowArgs :
          call_sensor_set_windowing(win[1], win[2], win[3], win[4])
    \/ \E fr \in FramerateArgs : call_sensor_set_framerate(fr)
    \/ call_sensor_set_framerate(-1)
    \/ \E g \in LevelArgs : call_sensor_set_gainceiling(g)
    \/ \E sde \in LevelArgs : call_sensor_set_special_effect(sde)
    \/ \E en \in BOOLEAN : call_sensor_set_hmirror(en)
    \/ \E en \in BOOLEAN : call_sensor_set_vflip(en)
    \/ \E en \in BOOLEAN : call_sensor_set_transpose(en)
    \/ \E en \in BOOLEAN : call_sensor_set_auto_rotation(en)
    \/ call_sensor_set_framebuffers(-1)
    \/ \E slot \in ThinSlots : call_sensor_thin_delegate(slot)
    \/ call_sensor_sleep(TRUE)
    \/ \E en \in BOOLEAN : call_sensor_shutdown(en)
    \/ call_sensor_ioctl(0)
    \/ call_sensor_read_reg(0)
    \/ call_sensor_write_reg(0, 0)
    \/ call_sensor_get_id
    \/ call_sensor_set_vsync_callback("NULL")
    \/ call_sensor_set_frame_callback("NULL")
    \/ call_sensor_set_color_palette("rainbow_table")
    \/ Return

SpecCtl == InitCtl /\ [][NextCtl]_vars

(* Detection at startup alone, over every device and hypothesis.           *)
NextProbe ==
    \/ \E e \in ProbeEnvs : call_sensor_probe_init(e)
    \/ Return

SpecProbe == Init /\ [][NextProbe]_vars

(* The geometry engine: one chip, one frame size, every pixel format, and  *)
(* windows of odd and even sides, smaller and larger than the buffers.     *)
CropBootEnvs ==
    { ProbeEnv(DevOV76, 1, FALSE, FALSE, 0, 0, cfg) : cfg \in {CfgAll, CfgGeo} }

CropWindowArgs ==
    { <<4, 2, 25, 15>>, <<1, 3, 102, 101>>, <<0, 0, 203, 201>>,
      <<3, 1, 304, 287>> }

NextCrop ==
    \/ \E e \in CropBootEnvs : call_sensor_probe_init(e)
    \/ \E p \in PixFormats : call_sensor_set_pixformat(p)
    \/ call_sensor_set_framesize(FRAMESIZE_QQQQVGA)
    \/ \E win \in CropWindowArgs :
          call_sensor_set_windowing(win[1], win[2], win[3], win[4])
    \/ call_sensor_auto_crop_framebuffer
    \/ Return

SpecCrop == Init /\ [][NextCrop]_vars

(* The software throttle: a chip without hardware rate control, the frame  *)
(* rates 0 and 10 (interval 100 ms) and frames at the ticks of Ticks.      *)
ThrottleBootEnvs == { ProbeEnv(DevOV76, 1, FALSE, FALSE, 0, 0, CfgGeo) }

ThrottleFramerateArgs == {0, 10}

NextThrottle ==
    \/ \E e \in ThrottleBootEnvs : call_sensor_probe_init(e)
    \/ \E fr \in ThrottleFramerateArgs : call_sensor_set_framerate(fr)
    \/ call_sensor_throttle_framerate
    \/ call_frame_ended
    \/ \E t \in Ticks : Tick(t)
    \/ Return

InitThrottle == Init /\ board = BoardB

SpecThrottle == InitThrottle /\ [][NextThrottle]_vars

(* The error catalog: every code of the catalog and the values around it.  *)
MaxError == 23

ErrorArgs == (-MaxError) .. MaxError

NextError ==
    \/ \E e \in BootEnvs : call_sensor_probe_init(e)
    \/ \E error \in ErrorArgs : call_sensor_strerror(error)
    \/ Return

SpecError == Init /\ [][NextError]_vars

(* The scanline copy: frames of 3 x 2 and 2 x 3 pixels under every pixel   *)
(* format, transposed or not, on builds with and without hardware swap.    *)
CopyBootEnvs ==
    { ProbeEnv(DevOV76, 1, FALSE, FALSE, 0, 0, cfg) : cfg \in {CfgAll, CfgGeo} }

CopyWindowArgs == { <<0, 0, 3, 2>>, <<2, 2, 2, 3>> }

FrameSeeds == {1, 130}

NextCopy ==
    \/ \E e \in CopyBootEnvs : call_sensor_probe_init(e)
    \/ \E p \in PixFormats : call_sensor_set_pixformat(p)
    \/ \E win \in CopyWindowArgs :
          call_sensor_set_windowing(win[1], win[2], win[3], win[4])
    \/ \E en \in BOOLEAN : call_sensor_set_transpose(en)
    \/ \E seed \in FrameSeeds : frame_started(seed)
    \/ call_sensor_copy_line
    \/ Return

SpecCopy == Init /\ [][NextCopy]_vars

---------------------------------------------------------------------------
(* What a returned call shows of itself: its name and arguments (op), the  *)
(* state it started from (pre), its result (ret) and what it did (calls).  *)

Returned(name) == pc = "ret" /\ op.name = name

StateUnchanged == sensor = pre.sensor /\ fb = pre.fb

NoHookCalled == \A i \in DOMAIN calls : ~IsHookEvent(calls[i])

(* the sensor field each value setter compares its argument with *)
ValueField ==
    [sensor_set_pixformat |-> "pixformat",
     sensor_set_framesize |-> "framesize",
     sensor_set_framerate |-> "framerate",
     sensor_set_hmirror |-> "hmirror",
     sensor_set_vflip |-> "vflip",
     sensor_set_gainceiling |-> "gainceiling",
     sensor_set_special_effect |-> "sde"]

ValueSetters == DOMAIN ValueField

CapabilitySetters ==
    ValueSetters \cup {"sensor_sleep", "sensor_ioctl"}
    \cup {"sensor_" \o slot : slot \in ThinSlots}

SlotOf(name) == CHOOSE slot \in AllSlots : "sensor_" \o slot = name

RequestDiffers ==
    op.name \in ValueSetters => op.args[1] # pre.sensor[ValueField[op.name]]

SlotAbsent == ~HasSlot(pre.sensor, SlotOf(op.name))

(* C1: sensor_set_pixformat(p) with p = sensor.pixformat, and              *)
(* sensor_set_framesize(f) with f = sensor.framesize, return 0, call       *)
(* neither the chip hook nor sensor_abort, the flush or sensor_config, and *)
(* leave the sensor state and the frame geometry as they were.             *)
C1_UnchangedValueIsNoOp ==
    (pc = "ret"
     /\ \/ /\ op.name = "sensor_set_pixformat"
           /\ op.args[1] = pre.sensor.pixformat
        \/ /\ op.name = "sensor_set_framesize"
           /\ op.args[1] = pre.sensor.framesize)
    => ret = 0 /\ calls = <<>> /\ StateUnchanged

C1_Witness ==
    /\ Returned("sensor_set_pixformat")
    /\ pre.sensor.pixformat = PIXFORMAT_RGB565
    /\ op.args[1] = PIXFORMAT_RGB565
    /\ pre.sensor.framesize # FRAMESIZE_INVALID
    /\ ret = 0

(* C2 as stated: every capability setter whose slot is absent, asked for a *)
(* value other than the current one, returns SENSOR_ERROR_CTL_UNSUPPORTED, *)
(* calls no hook and changes neither the sensor state nor the geometry.    *)
C2_AbsentSlotIsUnsupported ==
    (pc = "ret" /\ op.name \in CapabilitySetters /\ RequestDiffers
     /\ SlotAbsent)
    => /\ ret = SENSOR_ERROR_CTL_UNSUPPORTED
       /\ NoHookCalled
       /\ StateUnchanged

(* the pairs of format and orientation sensor_set_pixformat refuses *)
C2_FormatRefused ==
    \/ /\ op.args[1] = PIXFORMAT_YUV422
       /\ (pre.sensor.transpose \/ pre.sensor.auto_rotation)
    \/ /\ op.args[1] = PIXFORMAT_JPEG
       /\ \/ sensor_get_cropped(pre.sensor, pre.fb)
          \/ pre.sensor.transpose
          \/ pre.sensor.auto_rotation

(* C2 amended: with the slot absent and a value other than the current one *)
(* requested, no hook is called and the geometry is unchanged; every       *)
(* setter but sensor_set_framerate leaves the sensor state unchanged and   *)
(* returns SENSOR_ERROR_CTL_UNSUPPORTED (sensor_set_pixformat returns      *)
(* SENSOR_ERROR_PIXFORMAT_UNSUPPORTED for a format it refuses under the    *)
(* current orientation or crop); sensor_set_framerate records a rate >= 0  *)
(* and returns 0, and returns SENSOR_ERROR_INVALID_ARGUMENT for a rate < 0.*)
C2_AbsentSlotOutcome ==
    (pc = "ret" /\ op.name \in CapabilitySetters /\ RequestDiffers
     /\ SlotAbsent)
    => /\ NoHookCalled
       /\ fb = pre.fb
       /\ IF op.name = "sensor_set_framerate"
          THEN IF op.args[1] < 0
               THEN /\ ret = SENSOR_ERROR_INVALID_ARGUMENT
                    /\ sensor = pre.sensor
               ELSE /\ ret = 0
                    /\ sensor = [pre.sensor EXCEPT !.framerate = op.args[1]]
          ELSE /\ sensor = pre.sensor
               /\ ret = IF op.name = "sensor_set_pixformat" /\ C2_FormatRefused
                        THEN SENSOR_ERROR_PIXFORMAT_UNSUPPORTED
                        ELSE SENSOR_ERROR_CTL_UNSUPPORTED

C2_Witness ==
    /\ Returned("sensor_set_gainceiling")
    /\ op.args[1] # pre.sensor.gainceiling
    /\ SlotAbsent
    /\ pre.sensor.pixformat # PIXFORMAT_INVALID
    /\ ret = SENSOR_ERROR_CTL_UNSUPPORTED

(* the fields of the sensor state the setters commit *)
CommittedFields ==
    {"pixformat", "framesize", "framerate", "hmirror", "vflip",
     "gainceiling", "sde", "transpose", "auto_rotation"}

HookFailed ==
    /\ pc = "ret"
    /\ op.name \in ValueSetters
    /\ EvHookFailed(SlotOf(op.name)) \in Range(calls)

(* C3: when the hook of sensor_set_pixformat, _framesize, _framerate,      *)
(* _hmirror, _vflip, _gainceiling or _special_effect reports a failure,    *)
(* the call returns SENSOR_ERROR_CTL_FAILED and pixformat, framesize,      *)
(* framerate, hmirror, vflip, gainceiling, sde, transpose and              *)
(* auto_rotation have their values of before the call.                     *)
C3_FailedHookCommitsNothing ==
    HookFailed
    => /\ ret = SENSOR_ERROR_CTL_FAILED
       /\ \A fld \in CommittedFields : sensor[fld] = pre.sensor[fld]

C3_Witness ==
    /\ HookFailed
    /\ op.name = "sensor_set_vflip"
    /\ pre.sensor.pixformat = PIXFORMAT_GRAYSCALE
    /\ pre.sensor.hmirror

GeometrySetters ==
    {"sensor_set_pixformat", "sensor_set_framesize", "sensor_set_windowing",
     "sensor_set_transpose", "sensor_set_auto_rotation",
     "sensor_set_framebuffers", "sensor_auto_crop_framebuffer"}

IsWrite(e) == e \in {EvWriteSensor, EvWriteFb}

(* C4: in every call of sensor_set_pixformat, _framesize, _windowing,      *)
(* _transpose, _auto_rotation, _framebuffers and of                        *)
(* sensor_auto_crop_framebuffer, sensor_abort(true, false) is called       *)
(* before the first write to the sensor state or to MAIN_FB().             *)
C4_AbortBeforeFirstWrite ==
    (pc = "ret" /\ op.name \in GeometrySetters)
    => \A i \in DOMAIN calls :
          IsWrite(calls[i]) => \E j \in 1 .. (i - 1) : calls[j] = EvAbort

BothInvalid ==
    /\ sensor.pixformat = PIXFORMAT_INVALID
    /\ sensor.framesize = FRAMESIZE_INVALID

BothSet ==
    /\ sensor.pixformat # PIXFORMAT_INVALID
    /\ sensor.framesize # FRAMESIZE_INVALID

(* C5 as stated: in every state sensor.pixformat and sensor.framesize are  *)
(* both the invalid sentinel or both set.                                  *)
C5_BothOrNeither == BothInvalid \/ BothSet

(* C5 amended: both are invalid after initialisation, detection and every  *)
(* sensor_reset; sensor_set_pixformat leaves framesize and                 *)
(* sensor_set_framesize leaves pixformat as it was, so that one may be set *)
(* while the other is invalid; framebuffer_set_buffers is asked for        *)
(* buffers only when both are set.                                         *)
C5_SetOneAtATime ==
    /\ pc = "boot" => BothInvalid
    /\ Returned("sensor_probe_init") => BothInvalid
    /\ Returned("sensor_reset") => BothInvalid
    /\ Returned("sensor_set_pixformat")
       => sensor.framesize = pre.sensor.framesize
    /\ Returned("sensor_set_framesize")
       => sensor.pixformat = pre.sensor.pixformat
    /\ EvSetBuffers \in Range(calls) => BothSet

C5_Witness ==
    /\ Returned("sensor_reset")
    /\ pre.sensor.pixformat # PIXFORMAT_INVALID
    /\ pre.sensor.framesize # FRAMESIZE_INVALID
    /\ BothInvalid

FormatOrSizeChanged ==
    /\ pc = "ret"
    /\ op.name \in {"sensor_set_pixformat", "sensor_set_framesize"}
    /\ \/ sensor.pixformat # pre.sensor.pixformat
       \/ sensor.framesize # pre.sensor.framesize

(* C6: when sensor_set_pixformat or sensor_set_framesize has changed       *)
(* sensor.pixformat or sensor.framesize, MAIN_FB()->pixfmt is              *)
(* PIXFORMAT_INVALID at the return, whatever the code returned.            *)
C6_ChangeInvalidatesCachedFormat ==
    FormatOrSizeChanged => fb.pixfmt = PIXFORMAT_INVALID

C6_Witness ==
    /\ FormatOrSizeChanged
    /\ op.name = "sensor_set_framesize"
    /\ pre.fb.pixfmt = PIXFORMAT_RGB565
    /\ ret # 0

WindowingUnderJpeg ==
    /\ Returned("sensor_set_windowing")
    /\ pre.sensor.pixformat = PIXFORMAT_JPEG

(* C8 as stated: under PIXFORMAT_JPEG every sensor_set_windowing returns   *)
(* SENSOR_ERROR_PIXFORMAT_UNSUPPORTED and changes neither the sensor state *)
(* nor the frame geometry.                                                 *)
C8_JpegRefusesWindowing ==
    WindowingUnderJpeg
    => ret = SENSOR_ERROR_PIXFORMAT_UNSUPPORTED /\ StateUnchanged

(* C8 amended: under PIXFORMAT_JPEG sensor_set_windowing changes neither   *)
(* the sensor state nor the frame geometry; it returns                     *)
(* SENSOR_ERROR_PIXFORMAT_UNSUPPORTED for a window other than the current  *)
(* (x, y, u, v) and 0 for the current one.                                 *)
C8_JpegRefusesNewWindow ==
    WindowingUnderJpeg
    => /\ StateUnchanged
       /\ ret = IF <<pre.fb.x, pre.fb.y, pre.fb.u, pre.fb.v>> = op.args
                THEN 0
                ELSE SENSOR_ERROR_PIXFORMAT_UNSUPPORTED

C8_Witness ==
    /\ WindowingUnderJpeg
    /\ pre.sensor.framesize # FRAMESIZE_INVALID
    /\ ret = SENSOR_ERROR_PIXFORMAT_UNSUPPORTED

OrientationUnderPackedFormat ==
    /\ pc = "ret"
    /\ op.name \in {"sensor_set_transpose", "sensor_set_auto_rotation"}
    /\ pre.sensor.pixformat \in {PIXFORMAT_JPEG, PIXFORMAT_YUV422}

FlagsUnchanged ==
    /\ sensor.transpose = pre.sensor.transpose
    /\ sensor.auto_rotation = pre.sensor.auto_rotation

(* C9 as stated: under PIXFORMAT_JPEG or PIXFORMAT_YUV422 every            *)
(* sensor_set_transpose and sensor_set_auto_rotation returns               *)
(* SENSOR_ERROR_PIXFORMAT_UNSUPPORTED and leaves both flags unchanged.     *)
C9_PackedRefusesOrientation ==
    OrientationUnderPackedFormat
    => ret = SENSOR_ERROR_PIXFORMAT_UNSUPPORTED /\ FlagsUnchanged

(* C9 amended: under PIXFORMAT_JPEG or PIXFORMAT_YUV422 both flags are     *)
(* left unchanged; the call returns SENSOR_ERROR_PIXFORMAT_UNSUPPORTED     *)
(* when it asks for a value other than the flag's current one, and 0 when  *)
(* it asks for the current one.                                            *)
C9_PackedRefusesNewOrientation ==
    OrientationUnderPackedFormat
    => /\ FlagsUnchanged
       /\ ret = IF op.args[1] = (IF op.name = "sensor_set_transpose"
                                 THEN pre.sensor.transpose
                                 ELSE pre.sensor.auto_rotation)
                THEN 0
                ELSE SENSOR_ERROR_PIXFORMAT_UNSUPPORTED

C9_Witness ==
    /\ OrientationUnderPackedFormat
    /\ op.name = "sensor_set_auto_rotation"
    /\ pre.sensor.pixformat = PIXFORMAT_YUV422
    /\ ret = SENSOR_ERROR_PIXFORMAT_UNSUPPORTED

(* the bus scans of the call, in the order they were made *)
IsScan(e) ==
    \E rp \in {ACTIVE_LOW, ACTIVE_HIGH}, pp \in {ACTIVE_LOW, ACTIVE_HIGH},
       found \in BOOLEAN :
         e = EvScan([reset_pol |-> rp, power_pol |-> pp], found)

Scans == SelectSeq(calls, IsScan)

(* where the k-th scan stands in the log of the call *)
ScanPos(k) ==
    CHOOSE i \in DOMAIN calls :
        /\ IsScan(calls[i])
        /\ Cardinality({j \in 1 .. i : IsScan(calls[j])}) = k

(* the k-th hypothesis: polarity of the reset pin, polarity of the power   *)
(* pin (original = ACTIVE_HIGH) and the pin driven before the scan         *)
Hypotheses ==
    << [reset_pol |-> ACTIVE_HIGH, power_pol |-> ACTIVE_HIGH, pin |-> "none"],
       [reset_pol |-> ACTIVE_LOW, power_pol |-> ACTIVE_HIGH, pin |-> "RESET"],
       [reset_pol |-> ACTIVE_LOW, power_pol |-> ACTIVE_LOW, pin |-> "POWER"],
       [reset_pol |-> ACTIVE_HIGH, power_pol |-> ACTIVE_LOW, pin |-> "RESET"] >>

ScanFound(k) == Scans[k] = EvScan(Hypotheses[k], TRUE)

(* C10: sensor_probe_init scans the bus at most four times, under          *)
(* (reset, power) polarities (original, original), (inverted, original),   *)
(* (inverted, inverted), (original, inverted) in this order; before every  *)
(* scan but the first it drives the pin whose polarity it changed and      *)
(* waits; after the first scan that returns an address it scans no more,   *)
(* drives no pin and leaves the polarities as that scan had them.          *)
C10_ScanOrder ==
    Returned("sensor_probe_init")
    => /\ Len(Scans) \in 1 .. 4
       /\ \A k \in 1 .. Len(Scans) :
             /\ Scans[k] \in {EvScan(Hypotheses[k], TRUE),
                              EvScan(Hypotheses[k], FALSE)}
             /\ k < Len(Scans) => ~ScanFound(k)
             /\ k > 1 =>
                  /\ calls[ScanPos(k) - 2]
                       \in {EvGpio(Hypotheses[k].pin, "0"),
                            EvGpio(Hypotheses[k].pin, "1")}
                  /\ calls[ScanPos(k) - 1] = EvDelay
       /\ Len(Scans) < 4 => ScanFound(Len(Scans))
       /\ ScanFound(Len(Scans)) =>
             /\ sensor.reset_pol = Hypotheses[Len(Scans)].reset_pol
             /\ sensor.power_pol = Hypotheses[Len(Scans)].power_pol
             /\ \A i \in (ScanPos(Len(Scans)) + 1) .. Len(calls) :
                   \A pin \in {"RESET", "POWER"}, level \in {"0", "1"} :
                      calls[i] # EvGpio(pin, level)

C10_Witness ==
    /\ Returned("sensor_probe_init")
    /\ Len(Scans) = 4
    /\ ScanFound(4)
    /\ ret = 0

---------------------------------------------------------------------------
(* what the bus and the chip handed back during the sensor_probe_init that *)
(* returned                                                                *)
ProbeBus == op.args[1]

(* the identifier device d reports on the register its address is asked   *)
(* for, in the byte order of its family                                    *)
Identifier(d) ==
    IF d.addr = OV5640_SLV_ADDR
    THEN (IF d.gc = GC2145_ID THEN d.gc ELSE d.b2)
    ELSE IF d.addr = HM0XX0_SLV_ADDR THEN d.b2
    ELSE IF d.addr = MT9V0XX_SLV_ADDR THEN d.w
    ELSE IF d.addr = MT9M114_SLV_ADDR THEN d.w2
    ELSE IF d.addr = LEPTON_SLV_ADDR THEN LEPTON_ID
    ELSE IF d.addr = FROGEYE2020_SLV_ADDR THEN FROGEYE2020_ID
    ELSE IF d.addr = PAG7920_SLV_ADDR
    THEN (d.w % 256) * 256 + (d.w \div 256)
    ELSE d.b

(* device d is the chip on the bus and answers the k-th scan only *)
RespondsOnlyUnder(d, k) ==
    /\ Dev(d.addr, ProbeBus.gc, ProbeBus.b, ProbeBus.b2, ProbeBus.w,
           ProbeBus.w2) = d
    /\ \A i \in 1 .. 4 : (d.addr \in Range(ProbeBus.scans[i])) <=> (i = k)

(* d belongs to a family of the build *)
Supported(d) == dispatch(Identifier(d)) # NoFamily

(* legacy identifiers of the MT9V0X2 stand for the current one *)
Canonical(id) ==
    IF id \in {MT9V0X2_ID_V_1, MT9V0X2_ID_V_2} THEN MT9V0X2_ID ELSE id

(* C11 as stated: a device of a supported family that answers under the    *)
(* k-th polarity hypothesis only leaves, after sensor_probe_init, its own  *)
(* address and exactly the identifier it reported in the sensor record,    *)
(* with the reset and power polarities of hypothesis k.                    *)
C11_DetectedPairIsDevices ==
    Returned("sensor_probe_init")
    => \A d \in Devices, k \in 1 .. 4 :
          Supported(d) /\ RespondsOnlyUnder(d, k)
          => /\ sensor.slv_addr = d.addr
             /\ sensor.chip_id_w = Identifier(d)
             /\ sensor.reset_pol = Hypotheses[k].reset_pol
             /\ sensor.power_pol = Hypotheses[k].power_pol

(* C11 amended: the address is the device's, the polarities are those of   *)
(* hypothesis k, and the identifier recorded is the one the device         *)
(* reported with the legacy MT9V0X2 identifiers replaced by the current    *)
(* one.                                                                    *)
C11_DetectedPairIsCanonical ==
    Returned("sensor_probe_init")
    => \A d \in Devices, k \in 1 .. 4 :
          Supported(d) /\ RespondsOnlyUnder(d, k)
          => /\ sensor.slv_addr = d.addr
             /\ sensor.chip_id_w = Canonical(Identifier(d))
             /\ sensor.reset_pol = Hypotheses[k].reset_pol
             /\ sensor.power_pol = Hypotheses[k].power_pol

C11_Witness ==
    /\ Returned("sensor_probe_init")
    /\ RespondsOnlyUnder(Dev(MT9V0XX_SLV_ADDR, 0, 0, 0, MT9V0X2_ID_V_2, 0), 3)
    /\ sensor.chip_id_w = MT9V0X2_ID
    /\ sensor.slv_addr = MT9V0XX_SLV_ADDR
    /\ sensor.power_pol = ACTIVE_LOW

---------------------------------------------------------------------------
(* the addresses sensor_detect knows in the build *)
KnownAddresses == {d.addr : d \in Devices}

(* some scan of the call lists a known address *)
ScanHit ==
    \E k \in 1 .. 4 : Range(ProbeBus.scans[k]) \cap KnownAddresses # {}

(* the known device on the bus, when there is one *)
BusDevice ==
    Dev(CHOOSE a \in KnownAddresses :
            \E k \in 1 .. 4 : a \in Range(ProbeBus.scans[k]),
        ProbeBus.gc, ProbeBus.b, ProbeBus.b2, ProbeBus.w, ProbeBus.w2)

Detected == ScanHit \/ ProbeBus.paj

DetectedId == IF ScanHit THEN Identifier(BusDevice) ELSE PAJ6100_ID

(* the clock configuration was called and failed; a bring-up routine was   *)
(* called and returned non-zero                                            *)
ClockCalled == EvXclk \in Range(calls)
BringupCalled == \E fam \in AllFamilies : EvInit(fam) \in Range(calls)
ClockFailed == ClockCalled /\ ProbeBus.xclk # 0
BringupFailed == BringupCalled /\ ProbeBus.init # 0

(* C12: sensor_probe_init returns SENSOR_ERROR_ISC_UNDETECTED exactly when  *)
(* no scan lists a known address and the out-of-band detector finds        *)
(* nothing, and then neither the clock configuration nor a bring-up        *)
(* routine runs; SENSOR_ERROR_ISC_UNSUPPORTED exactly when a sensor was    *)
(* detected and its identifier belongs to no family;                      *)
(* SENSOR_ERROR_TIM_INIT_FAILED exactly when the clock configuration       *)
(* fails; SENSOR_ERROR_ISC_INIT_FAILED exactly when the bring-up routine   *)
(* returns non-zero; and 0 otherwise.                                      *)
C12_ProbeOutcomeCodes ==
    Returned("sensor_probe_init")
    => /\ ret = SENSOR_ERROR_ISC_UNDETECTED <=> ~Detected
       /\ ~Detected => ~ClockCalled /\ ~BringupCalled
       /\ ret = SENSOR_ERROR_ISC_UNSUPPORTED
            <=> Detected /\ dispatch(DetectedId) = NoFamily
       /\ ret = SENSOR_ERROR_TIM_INIT_FAILED <=> ClockFailed
       /\ ret = SENSOR_ERROR_ISC_INIT_FAILED <=> BringupFailed
       /\ ret = 0 <=> /\ Detected
                      /\ dispatch(DetectedId) # NoFamily
                      /\ ~ClockFailed
                      /\ ~BringupFailed
       /\ ret \in {0, SENSOR_ERROR_ISC_UNDETECTED,
                    SENSOR_ERROR_ISC_UNSUPPORTED,
                    SENSOR_ERROR_TIM_INIT_FAILED,
                    SENSOR_ERROR_ISC_INIT_FAILED}

C12_Witness ==
    /\ Returned("sensor_probe_init")
    /\ ScanHit
    /\ DetectedId = OV2640_ID
    /\ ClockFailed
    /\ ProbeBus.init # 0
    /\ ret = SENSOR_ERROR_TIM_INIT_FAILED

---------------------------------------------------------------------------
(* the identifier detected belongs to a family of the build *)
Recognized == Detected /\ dispatch(DetectedId) # NoFamily

(* C13: for every recognized chip identifier sensor_probe_init calls       *)
(* sensor_set_xclk_frequency, the bring-up routine of the family is        *)
(* invoked only after that call, and it is not invoked when the call       *)
(* fails.                                                                  *)
C13_ClockBeforeBringup ==
    Returned("sensor_probe_init") /\ Recognized
    => /\ ClockCalled
       /\ \A i \in DOMAIN calls :
             (\E fam \in AllFamilies : calls[i] = EvInit(fam))
             => \E j \in 1 .. (i - 1) : calls[j] = EvXclk
       /\ ClockFailed => ~BringupCalled

---------------------------------------------------------------------------
(* sensor_auto_crop_framebuffer has returned; it changed the window *)
AutoCropped == Returned("sensor_auto_crop_framebuffer")

Cropped == AutoCropped /\ (fb.u # pre.fb.u \/ fb.v # pre.fb.v)

(* the window the call started from has positive sides and an origin that *)
(* is not negative                                                         *)
ProperWindow ==
    pre.fb.u >= 1 /\ pre.fb.v >= 1 /\ pre.fb.x >= 0 /\ pre.fb.y >= 0

(* sensor_check_framebuffer_size() = 0 *)
FitsBuffer(s, f) ==
    ~u32_gt(f.u * f.v * sensor_get_dst_bpp(s), framebuffer_get_buffer_size)

(* C14: sensor_auto_crop_framebuffer terminates for every window with      *)
(* u, v >= 1, every buffer capacity and every pixel format: the crop loop  *)
(* is never left running.                                                  *)
C14_CropTerminates ==
    ~(pc = "hung" /\ op.name = "sensor_auto_crop_framebuffer")

(* C15: when sensor_auto_crop_framebuffer returns with a pixel format of   *)
(* known depth, u * v * sensor_get_dst_bpp() is at most the buffer size    *)
(* for the format active on return, and u and v are even if it cropped.    *)
C15_ResultFitsAndIsEven ==
    AutoCropped /\ sensor_get_dst_bpp(sensor) # 0
    => /\ FitsBuffer(sensor, fb)
       /\ Cropped => fb.u % 2 = 0 /\ fb.v % 2 = 0

(* C16: from a window with u, v >= 1 and x, y >= 0                         *)
(* sensor_auto_crop_framebuffer never increases u, v or u * v, never       *)
(* leaves u or v negative, and leaves x and y non-negative and even        *)
(* whenever it cropped.                                                    *)
C16_NeverGrowsNeverNegative ==
    AutoCropped /\ ProperWindow
    => /\ fb.u <= pre.fb.u
       /\ fb.v <= pre.fb.v
       /\ fb.u * fb.v <= pre.fb.u * pre.fb.v
       /\ fb.u >= 0
       /\ fb.v >= 0
       /\ Cropped => /\ fb.x >= 0 /\ fb.x % 2 = 0
                     /\ fb.y >= 0 /\ fb.y % 2 = 0

(* a second sensor_auto_crop_framebuffer, whatever the hook and the        *)
(* collaborators answer, returns and leaves the format and the window as   *)
(* they are                                                                *)
SecondCallChangesNothing ==
    \A h \in HookResults, b \in CollabResults, c \in CollabResults :
       LET r == sensor_auto_crop_framebuffer(sensor, fb, Env(h, b, c, 0))
       IN  /\ ~r.hung
           /\ r.sensor.pixformat = sensor.pixformat
           /\ r.fb.x = fb.x
           /\ r.fb.y = fb.y
           /\ r.fb.u = fb.u
           /\ r.fb.v = fb.v

(* C17: sensor_auto_crop_framebuffer is idempotent: once a call has        *)
(* returned, a second call made right after it leaves pixformat, x, y, u   *)
(* and v as the first left them.                                           *)
C17_AutoCropIdempotent == AutoCropped => SecondCallChangesNothing

(* 100 * |a / b - A / B| <= A / B for the long and short sides a, b of the *)
(* result and A, B of the window the call started from                    *)
AspectWithinOnePercent ==
    LET A == IM_MAX(pre.fb.u, pre.fb.v)
        B == IM_MIN(pre.fb.u, pre.fb.v)
        a == IM_MAX(fb.u, fb.v)
        b == IM_MIN(fb.u, fb.v)
        d == a * B - A * b
    IN 100 * (IF d < 0 THEN -d ELSE d) <= A * b

(* C18: whenever sensor_auto_crop_framebuffer crops a window (W, H) to a   *)
(* non-empty window (u, v), max(u,v)/min(u,v) is within 1% of              *)
(* max(W,H)/min(W,H).                                                      *)
C18_AspectRatioKept ==
    Cropped /\ ProperWindow /\ fb.u > 0 /\ fb.v > 0
    => AspectWithinOnePercent

---------------------------------------------------------------------------
(* the throttle has returned from the first scanline of a frame *)
FirstScanline ==
    Returned("sensor_throttle_framerate") /\ ~pre.sensor.first_line

Interval == IM_DIV(1000, pre.sensor.framerate)

(* a baseline is valid and less than one interval has passed since *)
TooEarly ==
    /\ pre.sensor.last_frame_ms_valid
    /\ u32_diff_lt(tick, pre.sensor.last_frame_ms, Interval)

(* the frame stream of the example and what the additive rule gives *)
ExampleTicks == <<0, 40, 110, 150, 260>>
ExampleDrops == <<FALSE, TRUE, FALSE, TRUE, FALSE>>
ExampleBaselines == <<0, 0, 100, 100, 200>>

(* the first n frames are those of the example, at interval 100 *)
ExampleSoFar(n) ==
    /\ Len(frames) >= n
    /\ \A i \in 1 .. n :
          frames[i].tick = ExampleTicks[i] /\ frames[i].interval = 100

(* C19: on the first scanline of a frame sensor_throttle_framerate drops   *)
(* the frame exactly when a baseline is valid and (tick - last_frame_ms)   *)
(* is less than the interval; an accepted frame advances last_frame_ms by  *)
(* one interval, the very first frame sets it to the tick, a dropped frame *)
(* leaves it; and frames at ticks 0, 40, 110, 150, 260 with interval 100   *)
(* are accepted, dropped, accepted, dropped, accepted with baselines 0, 0, *)
(* 100, 100, 200.                                                          *)
C19_ThrottleAdditiveBaseline ==
    /\ FirstScanline
       => /\ sensor.first_line
          /\ sensor.drop_frame <=> TooEarly
          /\ TooEarly => sensor.last_frame_ms = pre.sensor.last_frame_ms
          /\ ~TooEarly /\ pre.sensor.last_frame_ms_valid
               => sensor.last_frame_ms = pre.sensor.last_frame_ms + Interval
          /\ ~pre.sensor.last_frame_ms_valid
               => sensor.last_frame_ms = tick /\ sensor.last_frame_ms_valid
    /\ \A n \in 1 .. Len(ExampleTicks) :
          ExampleSoFar(n)
          => /\ frames[n].drop = ExampleDrops[n]
             /\ frames[n].baseline = ExampleBaselines[n]

C19_Witness ==
    /\ FirstScanline
    /\ ExampleSoFar(5)
    /\ ~sensor.drop_frame
    /\ sensor.last_frame_ms = 200
    /\ tick = 260

---------------------------------------------------------------------------
(* the reads of entries the table has *)
ReadsInsideTable == {EvReadTable(i) : i \in 0 .. (Len(sensor_errors) - 1)}

(* C20: for every error value whose magnitude is not the number of a       *)
(* catalog entry (0..20), magnitude 21 included, sensor_strerror returns   *)
(* "Unknown error." and reads nothing outside the 21-entry table.          *)
C20_UnknownErrorForNonCatalog ==
    /\ Returned("sensor_strerror")
    /\ magnitude(op.args[1]) \notin 0 .. (-SENSOR_ERROR_LAST)
    => /\ ret = UnknownError
       /\ \A i \in DOMAIN calls : calls[i] \in ReadsInsideTable

---------------------------------------------------------------------------
NegativeFramerateAsked ==
    Returned("sensor_set_framerate") /\ op.args[1] < 0

(* C21: sensor_set_framerate returns SENSOR_ERROR_INVALID_ARGUMENT for     *)
(* every negative value, calls no hook and changes nothing, and            *)
(* sensor.framerate is never negative.                                     *)
C21_NegativeFramerateRejected ==
    /\ sensor.framerate >= 0
    /\ NegativeFramerateAsked
       => /\ ret = SENSOR_ERROR_INVALID_ARGUMENT
          /\ NoHookCalled
          /\ StateUnchanged

C21_Witness ==
    /\ NegativeFramerateAsked
    /\ HasSlot(pre.sensor, "set_framerate")
    /\ pre.sensor.framerate = 30
    /\ ret = SENSOR_ERROR_INVALID_ARGUMENT

---------------------------------------------------------------------------
(* sensor_set_framerate was asked for a rate >= 0 other than the current   *)
(* one                                                                     *)
NewFramerateAsked ==
    /\ Returned("sensor_set_framerate")
    /\ op.args[1] >= 0
    /\ op.args[1] # pre.sensor.framerate

(* C22: sensor_set_framerate with a new rate >= 0 calls the set_framerate  *)
(* hook when the family has one and then leaves sensor.framerate, the rate *)
(* of the software throttle, as it was; it records the rate in             *)
(* sensor.framerate only when the hook is absent.                          *)
C22_RateRecordedOnlyWithoutHook ==
    NewFramerateAsked
    => IF HasSlot(pre.sensor, "set_framerate")
       THEN /\ \/ EvHook("set_framerate") \in Range(calls)
               \/ EvHookFailed("set_framerate") \in Range(calls)
            /\ sensor.framerate = pre.sensor.framerate
       ELSE /\ NoHookCalled
            /\ sensor.framerate = op.args[1]

---------------------------------------------------------------------------
SetFramebuffers == Returned("sensor_set_framebuffers")

(* the resize request of the call and the write of frame_size before it *)
ResizeAfterSizeWrite ==
    \E i \in DOMAIN calls :
       /\ calls[i] = EvSetBuffers
       /\ \E j \in 1 .. (i - 1) : calls[j] = EvWriteFb

(* pixels of the frame: the window under hardware cropping, the native     *)
(* frame otherwise                                                         *)
FramePixels ==
    IF board.hw_crop
    THEN pre.fb.u * pre.fb.v
    ELSE res_w(pre.sensor.framesize) * res_h(pre.sensor.framesize)

(* C23: sensor_set_framebuffers returns SENSOR_ERROR_INVALID_PIXFORMAT     *)
(* when sensor.pixformat is invalid and otherwise                          *)
(* SENSOR_ERROR_INVALID_FRAMESIZE when sensor.framesize is invalid, and in *)
(* both cases leaves MAIN_FB()->frame_size as it was and does not ask the  *)
(* frame-buffer collaborator to resize; otherwise frame_size is set to the *)
(* window (or native) width * height * max(source bpp, destination bpp)    *)
(* before the resize request.                                              *)
C23_FramebuffersNeedFormatAndSize ==
    SetFramebuffers
    => IF pre.sensor.pixformat = PIXFORMAT_INVALID
       THEN /\ ret = SENSOR_ERROR_INVALID_PIXFORMAT
            /\ fb.frame_size = pre.fb.frame_size
            /\ EvSetBuffers \notin Range(calls)
       ELSE IF pre.sensor.framesize = FRAMESIZE_INVALID
       THEN /\ ret = SENSOR_ERROR_INVALID_FRAMESIZE
            /\ fb.frame_size = pre.fb.frame_size
            /\ EvSetBuffers \notin Range(calls)
       ELSE /\ fb.frame_size =
                  FramePixels * IM_MAX(sensor_get_src_bpp(pre.sensor),
                                       sensor_get_dst_bpp(pre.sensor))
            /\ ResizeAfterSizeWrite

C23_Witness ==
    /\ SetFramebuffers
    /\ pre.sensor.pixformat = PIXFORMAT_GRAYSCALE
    /\ sensor_get_src_bpp(pre.sensor) = 2
    /\ board.hw_crop
    /\ sensor_get_cropped(pre.sensor, pre.fb)
    /\ fb.frame_size = 750
    /\ ResizeAfterSizeWrite

---------------------------------------------------------------------------
(* the hardware-detected identity: bus address, chip identifiers, pin      *)
(* polarities                                                              *)
IdentityFields == {"slv_addr", "chip_id_w", "reset_pol", "power_pol"}

(* what the family bring-up routine installed: the capability table and    *)
(* the feature flags of the family                                         *)
BringupFields ==
    {"caps", "raw_output", "mono_bpp", "disable_delays", "rgb_swap",
     "yuv_swap"}

(* C24 as stated: after sensor_reset returns, with any result, every field *)
(* of the sensor state other than the bus address, the chip identifiers    *)
(* and the pin polarities has its zeroed module-init value, and those      *)
(* identity fields are unchanged.                                          *)
C24_ResetZeroesAllButIdentity ==
    Returned("sensor_reset")
    => /\ \A fld \in IdentityFields : sensor[fld] = pre.sensor[fld]
       /\ \A fld \in (DOMAIN ZeroSensor \ (IdentityFields \cup {"caps"})) :
             sensor[fld] = ZeroSensor[fld]

(* C24 amended: after sensor_reset returns, with any result, pixformat,    *)
(* framesize, framerate, sde, gainceiling and last_frame_ms are 0,         *)
(* hmirror, vflip, transpose, drop_frame, first_line, last_frame_ms_valid  *)
(* and disable_full_flush are false and both callbacks are NULL;           *)
(* auto_rotation is true exactly on a build with the IMU whose chip is the *)
(* OV7690; color_palette is the default rainbow table; the identity        *)
(* fields, the capability table and the flags disable_delays, raw_output   *)
(* and mono_bpp are unchanged.                                             *)
C24_ResetClearsSettings ==
    Returned("sensor_reset")
    => /\ \A fld \in (IdentityFields \cup BringupFields) :
             sensor[fld] = pre.sensor[fld]
       /\ sensor.auto_rotation
            = (board.imu /\ chip_id(pre.sensor) = OV7690_ID)
       /\ sensor.color_palette = "rainbow_table"
       /\ \A fld \in (DOMAIN ZeroSensor
                       \ (IdentityFields \cup BringupFields
                          \cup {"auto_rotation", "color_palette"})) :
             sensor[fld] = ZeroSensor[fld]

C24_Witness ==
    /\ Returned("sensor_reset")
    /\ ret = SENSOR_ERROR_CTL_FAILED
    /\ pre.sensor.pixformat = PIXFORMAT_RGB565
    /\ pre.sensor.framesize # FRAMESIZE_INVALID
    /\ pre.sensor.transpose
    /\ ~pre.sensor.auto_rotation
    /\ sensor.auto_rotation
    /\ sensor.mono_bpp = 2

---------------------------------------------------------------------------
LineCopied == Returned("sensor_copy_line")

(* the scanline the call copied *)
CopiedRow == op.args[1]

(* the addresses the call wrote *)
Written == Range(calls)

(* the byte of pixel (r, c) a 1-byte format takes from the sensor: the     *)
(* byte itself, or the low byte of a 16-bit element when the sensor puts   *)
(* out two bytes per monochrome pixel                                      *)
SourcePixel(r, c) ==
    IF sensor.pixformat = PIXFORMAT_GRAYSCALE /\ sensor.mono_bpp # 1
    THEN SrcByte(capture.seed, r, 2 * c)
    ELSE SrcByte(capture.seed, r, c)

(* the v-by-u frame whose byte (r, c) is byte (c, r) of the u-by-v frame   *)
(* in mem                                                                  *)
InverseTranspose(mem, u, v) ==
    [i \in 0 .. (u * v - 1) |-> mem[(i % u) * v + (i \div u)]]

OneByteTransposed ==
    /\ LineCopied
    /\ sensor.pixformat \in {PIXFORMAT_BAYER, PIXFORMAT_GRAYSCALE}
    /\ sensor.transpose

(* C25: under a 1-byte pixel format with transpose enabled, the copy of    *)
(* scanline r of a u-by-v frame to a destination starting at offset r      *)
(* writes pixel (r, c) to index c * v + r for every column c < u and       *)
(* writes nothing else; once every scanline is copied, the inverse         *)
(* transpose of the destination is the frame the sensor put out, byte for  *)
(* byte.                                                                   *)
C25_TransposedCopyRoundTrip ==
    OneByteTransposed
    => /\ Written = {EvWriteDst(c * fb.v + CopiedRow) : c \in 0 .. (fb.u - 1)}
       /\ Len(calls) = fb.u
       /\ \A c \in 0 .. (fb.u - 1) :
             capture.dst[c * fb.v + CopiedRow] = SourcePixel(CopiedRow, c)
       /\ capture.row = fb.v
          => /\ \A r \in 0 .. (fb.v - 1), c \in 0 .. (fb.u - 1) :
                   InverseTranspose(capture.dst, fb.u, fb.v)[r * fb.u + c]
                   = SourcePixel(r, c)
             /\ \A a \in (fb.u * fb.v) .. (MemSize - 1) :
                   capture.dst[a] = -1

C25_Witness ==
    /\ OneByteTransposed
    /\ sensor.pixformat = PIXFORMAT_BAYER
    /\ fb.u = 3
    /\ fb.v = 2
    /\ CopiedRow = 1
    /\ capture.row = fb.v
    /\ capture.dst[5] = SrcByte(130, 1, 2)

---------------------------------------------------------------------------
NewPixformatWanted ==
    Returned("sensor_set_pixformat") /\ op.args[1] # pre.sensor.pixformat

(* the frame fits the buffer at 1 byte per pixel and not at 2, the format  *)
(* is BAYER and a 2-byte format is asked for                               *)
BayerKept ==
    /\ pre.sensor.pixformat = PIXFORMAT_BAYER
    /\ op.args[1] \in {PIXFORMAT_RGB565, PIXFORMAT_YUV422}
    /\ u32_gt(pre.fb.u * pre.fb.v * 2, framebuffer_get_buffer_size)
    /\ ~u32_gt(pre.fb.u * pre.fb.v, framebuffer_get_buffer_size)

(* C26: sensor_set_pixformat from BAYER to RGB565 or YUV422 with a window  *)
(* of u * v * 2 > capacity and u * v <= capacity returns 0, calls neither  *)
(* sensor_abort, the flush, the chip hook nor sensor_config and leaves     *)
(* pixformat BAYER; every other request for a new format goes on to the    *)
(* exclusion check (SENSOR_ERROR_PIXFORMAT_UNSUPPORTED with nothing        *)
(* called) and, past it, to the abort, the flush and the chip hook.        *)
C26_BayerKeptWhenColorWontFit ==
    NewPixformatWanted
    => IF BayerKept
       THEN ret = 0 /\ calls = <<>> /\ StateUnchanged
       ELSE IF C2_FormatRefused
       THEN /\ ret = SENSOR_ERROR_PIXFORMAT_UNSUPPORTED
            /\ calls = <<>>
            /\ StateUnchanged
       ELSE /\ Len(calls) >= 2
            /\ calls[1] = EvAbort
            /\ calls[2] = EvFlush
            /\ IF HasSlot(pre.sensor, "set_pixformat")
               THEN /\ Len(calls) >= 3
                    /\ calls[3] \in {EvHook("set_pixformat"),
                                     EvHookFailed("set_pixformat")}
               ELSE ret = SENSOR_ERROR_CTL_UNSUPPORTED /\ NoHookCalled

C26_Witness ==
    /\ NewPixformatWanted
    /\ BayerKept
    /\ op.args[1] = PIXFORMAT_YUV422
    /\ board.buffer_size = SmallBuffer
    /\ sensor.pixformat = PIXFORMAT_BAYER
    /\ ret = 0

---------------------------------------------------------------------------
PackedFormat == sensor.pixformat \in {PIXFORMAT_YUV422, PIXFORMAT_JPEG}

(* C27: in every state reached by sensor_set_pixformat,                    *)
(* sensor_set_transpose, sensor_set_auto_rotation,                         *)
(* sensor_auto_crop_framebuffer and sensor_reset, sensor.pixformat is not  *)
(* YUV422 or JPEG while sensor.transpose or sensor.auto_rotation is set.   *)
C27_PackedExcludesOrientation ==
    ~(PackedFormat /\ (sensor.transpose \/ sensor.auto_rotation))

C27_Witness ==
    /\ Returned("sensor_set_transpose")
    /\ op.args[1] = TRUE
    /\ PackedFormat
    /\ sensor.framesize # FRAMESIZE_INVALID
    /\ ret = SENSOR_ERROR_PIXFORMAT_UNSUPPORTED
    /\ ~sensor.transpose

---------------------------------------------------------------------------
(* the call wrote the u bytes of the scanline, in order, from the address  *)
(* it was given                                                            *)
StraightByteCopy ==
    /\ Len(calls) = fb.u
    /\ \A c \in 0 .. (fb.u - 1) :
          /\ calls[c + 1] = EvWriteDst(CopiedRow * fb.u + c)
          /\ capture.dst[CopiedRow * fb.u + c]
               = SrcByte(capture.seed, CopiedRow, c)

(* the call wrote the u bytes of the scanline one column of the            *)
(* destination apart                                                       *)
TransposedByteCopy ==
    /\ Len(calls) = fb.u
    /\ \A c \in 0 .. (fb.u - 1) :
          /\ calls[c + 1] = EvWriteDst(c * fb.v + CopiedRow)
          /\ capture.dst[c * fb.v + CopiedRow]
               = SrcByte(capture.seed, CopiedRow, c)

(* C28: under PIXFORMAT_JPEG sensor_copy_line copies the scanline as it    *)
(* does under the raw format: a straight copy of the bytes of the window   *)
(* width, or the transposed copy when transpose is set.                    *)
C28_JpegCopiedLikeRaw ==
    LineCopied /\ sensor.pixformat = PIXFORMAT_JPEG
    => IF sensor.transpose THEN TransposedByteCopy ELSE StraightByteCopy

---------------------------------------------------------------------------
ConfigurationSetters ==
    {"sensor_set_pixformat", "sensor_set_framesize", "sensor_set_windowing"}

(* C29: when sensor_set_pixformat, sensor_set_framesize or                 *)
(* sensor_set_windowing returns a non-zero code, for any reason,           *)
(* sensor.pixformat, sensor.framesize and the MAIN_FB() geometry have the  *)
(* values they had before the call.                                        *)
C29_FailedCallLeavesConfiguration ==
    (pc = "ret" /\ op.name \in ConfigurationSetters /\ ret # 0)
    => /\ sensor.pixformat = pre.sensor.pixformat
       /\ sensor.framesize = pre.sensor.framesize
       /\ fb = pre.fb

---------------------------------------------------------------------------
(* C30: in every state reached by sensor_set_pixformat,                    *)
(* sensor_set_framesize, sensor_set_windowing,                             *)
(* sensor_auto_crop_framebuffer and sensor_reset, when sensor.pixformat is *)
(* JPEG and sensor.framesize is valid the window is the whole frame:       *)
(* x = 0, y = 0, and u and v are the native dimensions of the frame size.  *)
C30_JpegWindowIsWholeFrame ==
    sensor.pixformat = PIXFORMAT_JPEG /\ sensor.framesize # FRAMESIZE_INVALID
    => /\ fb.x = 0
       /\ fb.y = 0
       /\ fb.u = res_w(sensor.framesize)
       /\ fb.v = res_h(sensor.framesize)

C30_Witness ==
    /\ Returned("sensor_set_framesize")
    /\ pre.sensor.pixformat = PIXFORMAT_JPEG
    /\ pre.sensor.framesize = FRAMESIZE_INVALID
    /\ pre.fb.x # 0
    /\ sensor.pixformat = PIXFORMAT_JPEG
    /\ sensor.framesize # FRAMESIZE_INVALID
    /\ fb.x = 0

---------------------------------------------------------------------------
(* every frame so far met the same interval I > 0 *)
FixedInterval ==
    /\ Len(frames) > 0
    /\ frames[1].interval > 0
    /\ \A i \in DOMAIN frames : frames[i].interval = frames[1].interval

AcceptedFrames == {i \in DOMAIN frames : ~frames[i].drop}

(* the number of frames accepted before frame i *)
AcceptedBefore(i) == Cardinality({j \in AcceptedFrames : j < i})

(* C31: with a fixed interval I > 0 and ticks that never decrease, the     *)
(* first frame is accepted and seeds the baseline with its tick t0, the    *)
(* k-th frame accepted after it is accepted at a tick >= t0 + k * I, and   *)
(* after every accepted frame last_frame_ms is at most that frame's tick.  *)
C31_ThrottleNeverExceedsRate ==
    FixedInterval
    => /\ ~frames[1].drop
       /\ frames[1].baseline = frames[1].tick
       /\ \A i \in AcceptedFrames :
             /\ frames[i].tick
                  >= frames[1].tick + AcceptedBefore(i) * frames[1].interval
             /\ frames[i].baseline <= frames[i].tick

C31_Witness ==
    /\ FirstScanline
    /\ FixedInterval
    /\ Len(frames) = 4
    /\ frames[1].tick = 40
    /\ frames[2].tick = 150 /\ ~frames[2].drop
    /\ frames[3].tick = 150 /\ frames[3].drop
    /\ frames[4].tick = 260 /\ ~frames[4].drop
    /\ sensor.last_frame_ms = 240

---------------------------------------------------------------------------
(* the writes of the call to one pin, in the order they were made *)
PinWrites(pin) ==
    LET IsPinWrite(e) == e \in {EvGpio(pin, "0"), EvGpio(pin, "1")}
    IN  SelectSeq(calls, IsPinWrite)

LastWritten(pin) == PinWrites(pin)[Len(PinWrites(pin))]

(* the write that ends the reset pulse of sensor_reset, and the write of   *)
(* sensor_shutdown(false), for the polarities the sensor record holds      *)
ResetReleased == reset_pulse(sensor)[Len(reset_pulse(sensor))]
PowerReleased ==
    LET IsPower(e) == e \in {EvGpio("POWER", "0"), EvGpio("POWER", "1")}
    IN  SelectSeq(sensor_shutdown(sensor, fb, FALSE).calls, IsPower)[1]

(* C32: when sensor_probe_init detects a sensor by a bus scan, under any   *)
(* of the four hypotheses, the level last written to the reset pin is the  *)
(* one that ends the reset pulse of sensor_reset and the level last        *)
(* written to the power pin is the one sensor_shutdown(false) drives, for  *)
(* the polarities recorded in sensor.reset_pol and sensor.power_pol.       *)
C32_PinsLeftDeasserted ==
    Returned("sensor_probe_init") /\ ScanFound(Len(Scans))
    => /\ LastWritten("RESET") = ResetReleased
       /\ LastWritten("POWER") = PowerReleased

C32_Witness ==
    /\ Returned("sensor_probe_init")
    /\ Len(Scans) = 3
    /\ ScanFound(3)
    /\ sensor.reset_pol = ACTIVE_LOW
    /\ sensor.power_pol = ACTIVE_LOW
    /\ LastWritten("RESET") = EvGpio("RESET", "1")
    /\ LastWritten("POWER") = EvGpio("POWER", "1")

====
